---------------------------- MODULE Spec2Model ----------------------------
(***************************************************************************)
(* Period-label normalization and table reconciliation of                  *)
(* src/complete.py.  Labels are strings processed character by character;  *)
(* the regular expressions of the source are written as patterns of a      *)
(* small backtracking matcher with the priorities of Python's re module.   *)
(***************************************************************************)
EXTENDS Integers, Sequences, FiniteSets, TLC

VARIABLES
  pc,            \* control position of the operation under check
  label, norm, renorm,          \* normalize_period_label: input, result, result of the result
  df, out,                      \* a table function: its input table and its return value
  list_of_dfs, company_name,    \* process_extracted_dfs: the tables of a document, the company
  errors, missing_segments,     \* process_extracted_dfs: returned next to the table
  long,                         \* tidy_long: the records it returns
  uploaded_pdf_files, file_idx, \* the documents of a run, the number of the one at work
  futures, results, result_idx, \* page tasks at work, their returns, the returns gone through
  file_extracted_dfs,           \* the tables of the document at work
  all_errors, all_processed_dfs, all_csv_files, all_missing_segments,  \* collected over the run
  summary_text, lines, line_idx,   \* parse_summary_text_with_delta: the text, its lines, the lines read
  current_section,                 \* the section of the last marker line
  main_summary, detail_summaries, outlier_summaries    \* what it returns

\* the variables of the visualisation stage, and their value before it
viz == <<long>>
NoViz == long = <<>>

\* the variables of a run over uploaded documents, and their value without one
job == <<uploaded_pdf_files, file_idx, futures, results, result_idx, file_extracted_dfs,
         all_errors, all_processed_dfs, all_csv_files, all_missing_segments>>
NoJob == /\ uploaded_pdf_files = <<>> /\ file_idx = 0 /\ futures = {} /\ results = <<>>
         /\ result_idx = 0 /\ file_extracted_dfs = <<>> /\ all_errors = <<>>
         /\ all_processed_dfs = <<>> /\ all_csv_files = <<>> /\ all_missing_segments = {}

\* the variables of the parsing of a summary, and their value without one;
\* the main summary is [] until a marker line sets it
NoMain == [empty |-> TRUE, text |-> ""]
Main(text) == [empty |-> FALSE, text |-> text]
summary == <<summary_text, lines, line_idx, current_section, main_summary, detail_summaries,
             outlier_summaries>>
NoSummary == /\ summary_text = "" /\ lines = <<>> /\ line_idx = 0 /\ current_section = "None"
             /\ main_summary = NoMain /\ detail_summaries = <<>> /\ outlier_summaries = <<>>

vars == <<pc, label, norm, renorm, df, out, list_of_dfs, company_name, errors, missing_segments, long,
          uploaded_pdf_files, file_idx, futures, results, result_idx, file_extracted_dfs,
          all_errors, all_processed_dfs, all_csv_files, all_missing_segments,
          summary_text, lines, line_idx, current_section, main_summary, detail_summaries,
          outlier_summaries>>

(***************************************************************************)
(* Strings                                                                 *)
(***************************************************************************)
LowerAlpha == "abcdefghijklmnopqrstuvwxyz"
UpperAlpha == "ABCDEFGHIJKLMNOPQRSTUVWXYZ"
Digits == "0123456789"
\* the whitespace of str.strip() and of \s that the labels of the model use
Whitespace == " \t"

CharAt(s, i) == SubSeq(s, i, i)

\* the least and the greatest of a non-empty set of numbers
MinOf(S) == CHOOSE x \in S : \A y \in S : x <= y
MaxOf(S) == 0 - MinOf({0 - x : x \in S})

\* the same of a set of positions, 0 when there is none
FirstOf(S) == IF S = {} THEN 0 ELSE MinOf(S)
LastOf(S) == IF S = {} THEN 0 ELSE MaxOf(S)

\* position of the first c in s at or after i, 0 when absent
IndexFrom(c, s, i) == FirstOf({j \in i..Len(s) : CharAt(s, j) = c})

\* position of character c in s, 0 when absent
IndexIn(c, s) == IndexFrom(c, s, 1)

upper_char(c) ==
  LET i == IndexIn(c, LowerAlpha) IN IF i = 0 THEN c ELSE CharAt(UpperAlpha, i)

lower_char(c) ==
  LET i == IndexIn(c, UpperAlpha) IN IF i = 0 THEN c ELSE CharAt(LowerAlpha, i)

\* character by character, the two halves of the string apart
RECURSIVE str_upper(_)
str_upper(s) ==
  IF Len(s) <= 1 THEN upper_char(s)
  ELSE str_upper(SubSeq(s, 1, Len(s) \div 2)) \o str_upper(SubSeq(s, Len(s) \div 2 + 1, Len(s)))

RECURSIVE str_lower(_)
str_lower(s) ==
  IF Len(s) <= 1 THEN lower_char(s)
  ELSE str_lower(SubSeq(s, 1, Len(s) \div 2)) \o str_lower(SubSeq(s, Len(s) \div 2 + 1, Len(s)))

\* the positions of s that hold no whitespace
Inked(s) == {i \in 1..Len(s) : IndexIn(CharAt(s, i), Whitespace) = 0}

str_from(s, i) == IF i = 0 THEN "" ELSE SubSeq(s, i, Len(s))

str_lstrip(s) == str_from(s, FirstOf(Inked(s)))

str_rstrip(s) == SubSeq(s, 1, LastOf(Inked(s)))

str_strip(s) == str_rstrip(str_lstrip(s))

str_startswith(s, p) == Len(p) <= Len(s) /\ SubSeq(s, 1, Len(p)) = p

str_endswith(s, p) ==
  Len(p) <= Len(s) /\ SubSeq(s, Len(s) - Len(p) + 1, Len(s)) = p

\* position of the first p in s at or after i, 0 when absent
str_find(s, p, i) ==
  FirstOf({j \in i..(Len(s) - Len(p) + 1) : SubSeq(s, j, j + Len(p) - 1) = p})

\* str.replace(old, new): every non-overlapping occurrence, left to right
RECURSIVE str_replace(_, _, _)
str_replace_at(s, old, new, i) ==
  IF i = 0 THEN s
  ELSE SubSeq(s, 1, i - 1) \o new \o str_replace(SubSeq(s, i + Len(old), Len(s)), old, new)
str_replace(s, old, new) == str_replace_at(s, old, new, str_find(s, old, 1))

\* p in s
str_contains(s, p) == str_find(s, p, 1) > 0

\* int(s) of a string of decimal digits
RECURSIVE str_to_int(_)
str_to_int(s) ==
  IF s = "" THEN 0
  ELSE 10 * str_to_int(SubSeq(s, 1, Len(s) - 1)) + (IndexIn(CharAt(s, Len(s)), Digits) - 1)

\* str(n) of a natural number
RECURSIVE int_to_str(_)
int_to_str(n) ==
  IF n < 10 THEN CharAt(Digits, n + 1)
  ELSE int_to_str(n \div 10) \o CharAt(Digits, (n % 10) + 1)

(***************************************************************************)
(* Regular expressions: re.match of an anchored pattern.  A pattern is a   *)
(* sequence of items, each a quantified character class or an ordered      *)
(* alternation of literals; the matcher backtracks in the order Python     *)
(* does (greedy: longest first, lazy: shortest first, alternatives left to *)
(* right) and returns the text matched by each item.                       *)
(***************************************************************************)
\* a character class repeated lo..hi times (hi = -1: unbounded), greedy
Cls(cs, lo, hi) ==
  [kind |-> "cls", cs |-> cs, neg |-> FALSE, lo |-> lo, hi |-> hi, lazy |-> FALSE, alts |-> <<>>, ci |-> FALSE]

ClsLazy(cs, lo, hi) == [Cls(cs, lo, hi) EXCEPT !.lazy = TRUE]

\* [^cs] repeated lo..hi times; "." is the negation of the empty class
NotCls(cs, lo, hi) == [Cls(cs, lo, hi) EXCEPT !.neg = TRUE]

NotClsLazy(cs, lo, hi) == [Cls(cs, lo, hi) EXCEPT !.neg = TRUE, !.lazy = TRUE]

\* (a|b|...) in the order written; "" as last alternative makes it optional
Alt(alts) ==
  [kind |-> "alt", cs |-> "", neg |-> FALSE, lo |-> 1, hi |-> 1, lazy |-> FALSE, alts |-> alts, ci |-> FALSE]

\* the same under re.IGNORECASE
AltCI(alts) == [Alt(alts) EXCEPT !.ci = TRUE]

Lit(s) == Alt(<<s>>)

InCls(c, it) == (IndexIn(c, it.cs) > 0) # it.neg

\* position stop, or the end of s for no position
or_end(s, stop) == IF stop = 0 THEN Len(s) + 1 ELSE stop

re_cap(n, hi) == IF hi >= 0 /\ n > hi THEN hi ELSE n

\* the number of characters of the class from pos on, at most hi
re_run(s, pos, it) ==
  re_cap(or_end(s, FirstOf({j \in pos..Len(s) : ~InCls(CharAt(s, j), it)})) - pos, it.hi)

NoMatch == [ok |-> FALSE, g |-> <<>>]

RECURSIVE re_from(_, _, _, _)
RECURSIVE re_alt(_, _, _, _, _)

\* the numbers of repetitions of item k, of lo..run, after which the rest matches
re_counts(s, pos, pat, k, run) ==
  {c \in pat[k].lo..run : re_from(s, pos + c, pat, k + 1).ok}

re_take(s, pos, pat, k, c) ==
  [ok |-> TRUE, g |-> <<SubSeq(s, pos, pos + c - 1)>> \o re_from(s, pos + c, pat, k + 1).g]

\* the first number of repetitions that the matcher tries with success: the
\* least of a lazy item, the greatest of a greedy one
re_count(s, pos, pat, k, cs) ==
  IF cs = {} THEN NoMatch
  ELSE re_take(s, pos, pat, k, IF pat[k].lazy THEN MinOf(cs) ELSE MaxOf(cs))

re_from(s, pos, pat, k) ==
  IF k > Len(pat)
  THEN IF pos = Len(s) + 1 THEN [ok |-> TRUE, g |-> <<>>] ELSE NoMatch
  ELSE IF pat[k].kind = "alt" THEN re_alt(s, pos, pat, k, 1)
  ELSE re_count(s, pos, pat, k, re_counts(s, pos, pat, k, re_run(s, pos, pat[k])))

re_alt(s, pos, pat, k, j) ==
  IF j > Len(pat[k].alts) THEN NoMatch
  ELSE LET lit == pat[k].alts[j]
           txt == SubSeq(s, pos, pos + Len(lit) - 1)
           hit == /\ pos + Len(lit) - 1 <= Len(s)
                  /\ IF pat[k].ci THEN str_upper(txt) = str_upper(lit) ELSE txt = lit
           r == re_from(s, pos + Len(lit), pat, k + 1)
       IN IF hit /\ r.ok THEN [ok |-> TRUE, g |-> <<txt>> \o r.g]
          ELSE re_alt(s, pos, pat, k, j + 1)

\* re.match(r"^...$", s)
re_match(s, pat) == re_from(s, 1, pat, 1)

\* the first of the patterns (in the order given) that matches
RECURSIVE re_first(_, _, _)
re_first(s, pats, i) ==
  IF i > Len(pats) THEN [ok |-> FALSE, g |-> <<>>, v |-> 0]
  ELSE LET r == re_match(s, pats[i]) IN
       IF r.ok THEN [ok |-> TRUE, g |-> r.g, v |-> i] ELSE re_first(s, pats, i + 1)

(***************************************************************************)
(* Period header normalization                                             *)
(***************************************************************************)
CURRENT_YEAR == 2025
LAST_ACTUAL_QUARTER == 2

Months == <<"JAN", "FEB", "MAR", "APR", "MAY", "JUN", "JUL", "AUG", "SEP", "OCT", "NOV", "DEC">>

IsMonth(m) == \E i \in 1..Len(Months) : Months[i] = m

\* _MONTH_TO_Q[m]
_MONTH_TO_Q(m) == ((CHOOSE i \in 1..Len(Months) : Months[i] = m) + 2) \div 3

_to_yyyy(y0) ==
  LET y == str_strip(y0) IN IF Len(y) = 2 THEN "20" \o y ELSE y

_is_future_quarter(yyyy, q) ==
  IF yyyy > CURRENT_YEAR THEN TRUE
  ELSE IF yyyy < CURRENT_YEAR THEN FALSE
  ELSE q > LAST_ACTUAL_QUARTER

\* mutant: only the marker F counts as a forecast
ForecastSuffix_OnlyF(suf) == IF suf = "F" THEN "F" ELSE ""

ForecastSuffix(suf) == IF suf \in {"E", "F"} THEN "F" ELSE ""

\* mutant: interior spaces are kept
period_token_KeepSpaces(lbl) ==
  LET s == str_upper(str_strip(lbl)) IN
  IF str_endswith(s, "ACTUAL") THEN str_replace(s, "ACTUAL", "") ELSE s

\* the input as the rules see it: stripped, upper-cased, spaces removed,
\* ACTUAL removed when the token ends with it
period_token(lbl) ==
  LET s == str_replace(str_upper(str_strip(lbl)), " ", "") IN
  IF str_endswith(s, "ACTUAL") THEN str_replace(s, "ACTUAL", "") ELSE s

\* the rule that decides a label (0: none, the pass-through) and its result
normalize_rule(lbl) ==
  LET s == period_token(lbl)
      m1 == re_match(s, <<Cls(Digits, 1, 2), Lit("/"), Cls(Digits, 4, 4), Cls("AEF", 0, 1)>>)
      m2 == re_match(s, <<Cls("1234", 1, 1), Lit("Q"), Cls(Digits, 2, 4), Cls("AEF", 0, 1)>>)
      m3 == re_match(s, <<Cls(UpperAlpha, 3, 3), Lit("-"), Cls(Digits, 2, 2), Cls("1234", 1, 1),
                          Lit("Q"), Cls("AEF", 0, 1)>>)
      m35 == re_match(s, <<Cls(UpperAlpha, 3, 3), Cls("-/", 1, 1), Cls(Digits, 2, 4)>>)
      m4 == re_match(s, <<Cls(Digits, 4, 4), Cls("EF", 1, 1), Cls(UpperAlpha, 0, -1)>>)
      m5 == re_match(s, <<Alt(<<"FY", "">>), Cls(Digits, 4, 4), Alt(<<"FY", "">>), Cls("AEF", 0, 1)>>)
      m6 == re_match(s, <<Cls("1234", 1, 1), Lit("Q"), Cls(Digits, 2, 2)>>)
  IN IF m1.ok THEN [rule |-> 1, value |-> _to_yyyy(m1.g[3]) \o ForecastSuffix(m1.g[4])]
     ELSE IF m2.ok
     THEN [rule |-> 2, value |-> m2.g[1] \o "Q" \o _to_yyyy(m2.g[3]) \o ForecastSuffix(m2.g[4])]
     ELSE IF m3.ok
     THEN [rule |-> 3, value |-> m3.g[4] \o "Q" \o _to_yyyy(m3.g[3]) \o ForecastSuffix(m3.g[6])]
     ELSE IF m35.ok /\ IsMonth(m35.g[1])
     THEN LET q == _MONTH_TO_Q(m35.g[1])
              yyyy == str_to_int(_to_yyyy(m35.g[3]))
          IN [rule |-> 4, value |-> int_to_str(q) \o "Q" \o int_to_str(yyyy)
                                     \o (IF _is_future_quarter(yyyy, q) THEN "F" ELSE "")]
     ELSE IF m4.ok THEN [rule |-> 5, value |-> m4.g[1] \o "F"]
     ELSE IF m5.ok THEN [rule |-> 6, value |-> m5.g[2] \o ForecastSuffix(m5.g[4])]
     ELSE IF m6.ok THEN [rule |-> 7, value |-> m6.g[1] \o "Q" \o _to_yyyy(m6.g[3])]
     ELSE [rule |-> 0, value |-> s]

normalize_period_label(lbl) == normalize_rule(lbl).value


(***************************************************************************)
(* Tables (pandas DataFrame): the ordered column labels and the rows, each *)
(* a label with one cell per column.  A cell is missing (NaN), a number or *)
(* a text.  raised marks the outcome of a call that ends in an exception.  *)
(***************************************************************************)
NA == [t |-> "na"]
Num(n) == [t |-> "num", n |-> n, p |-> 0]
\* the decimal number n / 10^p
Dec(n, p) == [t |-> "num", n |-> n, p |-> p]
Str(s) == [t |-> "str", s |-> s]

\* pd.isna(v)
isna(v) == v.t = "na"

\* None, and a value that is not None
None == [none |-> TRUE, items |-> {}]
Some(items) == [none |-> FALSE, items |-> items]

Table(cols, rows) == [cols |-> cols, rows |-> rows, raised |-> FALSE]
Row(name, v) == [name |-> name, v |-> v]
NoTable == Table(<<>>, <<>>)
Raised == [cols |-> <<>>, rows |-> <<>>, raised |-> TRUE]

\* DataFrame.empty
df_empty(d) == Len(d.rows) = 0 \/ Len(d.cols) = 0

SeqSet(q) == {q[i] : i \in 1..Len(q)}
ColSet(d) == SeqSet(d.cols)
Labels(d) == [i \in 1..Len(d.rows) |-> d.rows[i].name]

\* label in df.index
has_row(d, name) == \E i \in 1..Len(d.rows) : d.rows[i].name = name
row_count(d, name) == Cardinality({i \in 1..Len(d.rows) : d.rows[i].name = name})
row_of(d, name) == d.rows[CHOOSE i \in 1..Len(d.rows) : d.rows[i].name = name]

\* the cell of row r at column c, missing when r has no such column
cell(r, c) == IF c \in DOMAIN r.v THEN r.v[c] ELSE NA

\* df.drop(index=name)
drop_rows(d, name) ==
  LET keep(r) == r.name # name IN [d EXCEPT !.rows = SelectSeq(d.rows, keep)]

\* df[c] = pd.NA for a new column c
add_col(d, c) ==
  [d EXCEPT !.cols = Append(d.cols, c),
            !.rows = [i \in 1..Len(d.rows) |->
                        Row(d.rows[i].name, [k \in ColSet(d) \cup {c} |-> cell(d.rows[i], k)])]]

\* df.loc[name, :] = pd.NA for a new label
add_row(d, name) ==
  [d EXCEPT !.rows = Append(d.rows, Row(name, [k \in ColSet(d) |-> NA]))]

\* df.at[name, c] = v, name a label that occurs once
set_cell(d, name, c, v) ==
  [d EXCEPT !.rows = [i \in 1..Len(d.rows) |->
                        IF d.rows[i].name = name
                        THEN Row(name, [d.rows[i].v EXCEPT ![c] = v]) ELSE d.rows[i]]]

(***************************************************************************)
(* Metric names                                                            *)
(***************************************************************************)
index_rename_map ==
  << <<"revenue", "Revenue">>, <<"net revenue", "Revenue">>, <<"total revenue", "Revenue">>,
     <<"cost of revenue", "COGS">>, <<"cogs", "COGS">>, <<"cost of sales", "COGS">>,
     <<"gross profit", "GP">>, <<"gp", "GP">>, <<"gross margin", "GM">>, <<"gm", "GM">>,
     <<"op", "OP">>, <<"operating income", "OP">>, <<"operating profit", "OP">>,
     <<"op margin", "OP margin">>, <<"operating margin", "OP margin">>,
     <<"ebitda", "EBITDA">>, <<"ebitda margin", "EBITDA margin">>,
     <<"net profit", "NP">>, <<"np", "NP">>, <<"net income", "NP">>,
     <<"net profit margin", "NP Margin">>, <<"net margin", "NP Margin">>,
     <<"revenue growth", "revenue growth">>,
     <<"eps", "EPS">>, <<"earnings per share", "EPS">>, <<"non-gaap eps", "EPS">>,
     <<"roe", "ROE">>, <<"return on equity", "ROE">>,
     <<"operating leverage", "operating leverage">>,
     <<"free cash flow", "FCF">>, <<"fcf", "FCF">>,
     <<"research and development", "R&D">>, <<"r&d", "R&D">>,
     <<"capex", "CapEx">>, <<"capital expenditure", "CapEx">>, <<"capital expenditures", "CapEx">>,
     <<"property and equipment", "PP&E">>, <<"pp&e", "PP&E">> >>

\* index_rename_map.get(k, default)
rename_get(k, default) ==
  IF \E i \in 1..Len(index_rename_map) : index_rename_map[i][1] = k
  THEN index_rename_map[CHOOSE i \in 1..Len(index_rename_map) : index_rename_map[i][1] = k][2]
  ELSE default

_canon_metric_name(raw_base) == rename_get(str_lower(str_strip(raw_base)), str_strip(raw_base))

(***************************************************************************)
(* Folding of rows <base>_mar/jun/sep/dec/fy into the base row             *)
(***************************************************************************)
\* _SUFFIX_TO_Q[suf]
_SUFFIX_TO_Q(suf) ==
  CASE suf = "MAR" -> "1Q" [] suf = "JUN" -> "2Q" [] suf = "SEP" -> "3Q" [] suf = "DEC" -> "4Q"

\* (YYYY, is_forecast) of a year column, ok FALSE for any other column
_is_year_col(col) ==
  LET m == re_match(col, <<Cls(Digits, 4, 4), Cls("F", 0, 1)>>) IN
  IF m.ok THEN [ok |-> TRUE, yyyy |-> m.g[1], isF |-> m.g[2] = "F"]
  ELSE [ok |-> FALSE, yyyy |-> "", isF |-> FALSE]

Separators == Whitespace \o "_-/"

\* ^(.*?)(?:\s*\(.*?\))?[\s_\-\/]+(MAR|JUN|SEP|DEC|FY(?:\s*RM)?)$ with the
\* optional parenthetical and the alternatives of the suffix written out; g[1]
\* is the base, the last but trailing items are the suffix
suffix_patterns ==
  LET base == NotClsLazy("", 0, -1)
      paren == <<Cls(Whitespace, 0, -1), Lit("("), NotClsLazy("", 0, -1), Lit(")")>>
      sep == Cls(Separators, 1, -1)
      month == <<AltCI(<<"MAR", "JUN", "SEP", "DEC">>)>>
      fyrm == <<AltCI(<<"FY">>), Cls(Whitespace, 0, -1), AltCI(<<"RM">>)>>
      fy == <<AltCI(<<"FY">>)>>
  IN << <<base>> \o paren \o <<sep>> \o month, <<base>> \o paren \o <<sep>> \o fyrm,
        <<base>> \o paren \o <<sep>> \o fy,
        <<base, sep>> \o month, <<base, sep>> \o fyrm, <<base, sep>> \o fy >>

\* the suffix as the code keeps it: upper case, spaces removed, FY RM as FY
suffix_of(raw) ==
  IF str_startswith(str_replace(str_upper(raw), " ", ""), "FY") THEN "FY"
  ELSE str_replace(str_upper(raw), " ", "")

\* base and suffix of the match of pattern number best with groups g
suffix_groups(best, g, item) ==
  [ok |-> TRUE, base |-> g[1],
   suf |-> suffix_of(IF best \in {2, 5} THEN g[item] \o g[item + 1] \o g[item + 2] ELSE g[item])]

\* the match Python finds: the lazy base is the outermost choice, so the
\* pattern with the shortest base wins, the earlier pattern on a tie
suffix_best(ms, hits) ==
  CHOOSE i \in hits : \A j \in hits : \/ Len(ms[i].g[1]) < Len(ms[j].g[1])
                                      \/ (Len(ms[i].g[1]) = Len(ms[j].g[1]) /\ i <= j)

suffix_at(ms, best) == suffix_groups(best, ms[best].g, IF best <= 3 THEN 7 ELSE 3)

suffix_select(ms, hits) ==
  IF hits = {} THEN [ok |-> FALSE, base |-> "", suf |-> ""]
  ELSE suffix_at(ms, suffix_best(ms, hits))

suffix_hits(ms) == {i \in 1..Len(ms) : ms[i].ok}

suffix_pick(ms) == suffix_select(ms, suffix_hits(ms))

suffix_try(s) == [i \in 1..Len(suffix_patterns) |-> re_match(s, suffix_patterns[i])]

suffix_match(name) == suffix_pick(suffix_try(str_strip(name)))

\* target_col without the forecast marker
target_col_DropF(suf, yyyy, isF) ==
  IF suf = "FY" THEN yyyy ELSE _SUFFIX_TO_Q(suf) \o yyyy

\* the column a value of year column (yyyy, isF) of a row with suffix suf moves to
target_col(suf, yyyy, isF) ==
  IF suf = "FY" THEN (IF isF THEN yyyy \o "F" ELSE yyyy)
  ELSE _SUFFIX_TO_Q(suf) \o yyyy \o (IF isF THEN "F" ELSE "")

\* fold_cell writing whatever the cell holds
fold_cell_Overwrite(d, base_std, tcol, val) ==
  LET d1 == IF has_row(d, base_std) THEN d ELSE add_row(d, base_std)
      d2 == IF tcol \in ColSet(d1) THEN d1 ELSE add_col(d1, tcol)
  IN IF row_count(d2, base_std) > 1 THEN Raised ELSE set_cell(d2, base_std, tcol, val)

\* the cell update of one year column: create the base row and the target
\* column when absent, write only into a missing cell
fold_cell(d, base_std, tcol, val) ==
  LET d1 == IF has_row(d, base_std) THEN d ELSE add_row(d, base_std)
      d2 == IF tcol \in ColSet(d1) THEN d1 ELSE add_col(d1, tcol)
  IN IF row_count(d2, base_std) > 1 THEN Raised
     ELSE IF isna(cell(row_of(d2, base_std), tcol)) THEN set_cell(d2, base_std, tcol, val)
     ELSE d2

\* the loop over the columns of one suffixed row
RECURSIVE fold_cols(_, _, _, _, _, _)
fold_cols(d, row, base_std, suf, cols, k) ==
  IF d.raised \/ k > Len(cols) THEN d
  ELSE LET y == _is_year_col(cols[k])
           val == cell(row, cols[k])
       IN IF ~y.ok \/ isna(val) THEN fold_cols(d, row, base_std, suf, cols, k + 1)
          ELSE fold_cols(fold_cell(d, base_std, target_col(suf, y.yyyy, y.isF), val),
                         row, base_std, suf, cols, k + 1)

\* the loop over work_rows
RECURSIVE fold_rows(_, _, _)
fold_rows(d, work, k) ==
  IF d.raised \/ k > Len(work) THEN d
  ELSE LET w == work[k]
           n == row_count(d, w.name)
       IN \* df.loc of a dropped label raises KeyError; of a repeated label it is
          \* a frame, whose cells have no truth value
          IF n = 0 \/ (n > 1 /\ \E c \in ColSet(d) : _is_year_col(c).ok) THEN Raised
          ELSE IF n > 1 THEN fold_rows(drop_rows(d, w.name), work, k + 1)
          ELSE LET folded == fold_cols(d, row_of(d, w.name), _canon_metric_name(w.base),
                                       w.suf, d.cols, 1)
               IN IF folded.raised THEN Raised
                  ELSE fold_rows(drop_rows(folded, w.name), work, k + 1)

RECURSIVE work_rows(_, _)
work_rows(rows, i) ==
  IF i > Len(rows) THEN <<>>
  ELSE LET m == suffix_match(rows[i].name) IN
       (IF m.ok THEN <<[name |-> rows[i].name, base |-> m.base, suf |-> m.suf]>> ELSE <<>>)
         \o work_rows(rows, i + 1)

fold_month_suffix_rows(d) ==
  IF d.raised \/ df_empty(d) THEN d
  ELSE LET work == work_rows(d.rows, 1) IN
       IF work = <<>> THEN d ELSE fold_rows(d, work, 1)

(***************************************************************************)
(* Specification SpecNorm: normalize_period_label applied to a header and  *)
(* then to its own result.                                                 *)
(***************************************************************************)
Years2 == {"24", "25", "26", "05"}
Years4 == {"2024", "2025", "2026", "0025"}
Markers == {"", "A", "E", "F"}
QuarterDigits == {"1", "2", "3", "4"}
MonthNames == {Months[i] : i \in 1..Len(Months)}

QuarterTokens == {q \o "Q" \o y \o suf : q \in QuarterDigits, y \in Years2 \cup Years4, suf \in Markers}
SlashTokens == {mm \o "/" \o y \o suf : mm \in {"3", "12"}, y \in Years4, suf \in Markers}
MonthQuarterTokens ==
  {m \o "-" \o y \o q \o "Q" \o suf : m \in {"SEP", "DEC"}, y \in {"24", "25"}, q \in {"3", "4"}, suf \in Markers}
MonthTokens ==
  {m \o sep \o y : m \in MonthNames \cup {"XYZ"}, sep \in {"-", "/"}, y \in Years2 \cup Years4 \cup {"025"}}
YearTokens == {y \o t : y \in Years4, t \in {"E", "F", "ENEW", "FY"}}
FYTokens == {p \o y \o s \o suf : p \in {"", "FY"}, y \in Years4, s \in {"", "FY"}, suf \in Markers}
OtherLabels ==
  {"2Q2025ACTUAL", " 3q24 ", "sep-25", "1 Q 25 E", "Revenue", "net sales", "FOO ACTUAL",
   "1H25", "1 h 25", "", "\tfy 2025\t", "a\tb", "2025 est", "ACTUAL", "3Q123", "Q3 2025", "12/25"}

PeriodLabels ==
  QuarterTokens \cup SlashTokens \cup MonthQuarterTokens \cup MonthTokens
    \cup YearTokens \cup FYTokens \cup OtherLabels

InitNorm == /\ pc = "labelled" /\ NoViz /\ NoJob /\ NoSummary
            /\ label \in PeriodLabels
            /\ norm = ""
            /\ renorm = ""
            /\ df = NoTable
            /\ out = NoTable
            /\ list_of_dfs = <<>> /\ errors = <<>> /\ missing_segments = None
            /\ company_name = ""

\* normalize_period_label(label)
Normalize == /\ pc = "labelled"
             /\ norm' = normalize_period_label(label)
             /\ pc' = "normalized"
             /\ UNCHANGED <<label, renorm, df, out, list_of_dfs, company_name, errors, missing_segments, viz, job, summary>>

\* normalize_period_label applied to its own result
Renormalize == /\ pc = "normalized"
               /\ renorm' = normalize_period_label(norm)
               /\ pc' = "renormalized"
               /\ UNCHANGED <<label, norm, df, out, list_of_dfs, company_name, errors, missing_segments, viz, job, summary>>

NextNorm == Normalize \/ Renormalize

SpecNorm == InitNorm /\ [][NextNorm]_vars


(***************************************************************************)
(* Claims about normalize_period_label (checked under SpecNorm)            *)
(***************************************************************************)
ExpandYear(y) == IF Len(y) = 2 THEN "20" \o y ELSE y

\* C6: for every label that one of the period rules recognizes, normalizing
\* the normalized label gives the normalized label again.
C6_Idempotent ==
  (pc = "renormalized" /\ normalize_rule(label).rule # 0) => renorm = norm

\* C7 as stated: normalization never fails, and a label no rule matches comes
\* back upper-cased with only its surrounding whitespace stripped.
C7_PassThroughSurroundingOnly ==
  (pc # "labelled" /\ normalize_rule(label).rule = 0) => norm = str_upper(str_strip(label))

\* C7 amended: normalization never fails, and a label no rule matches comes
\* back stripped of surrounding whitespace, upper-cased, with every space
\* character removed and, when that token ends with ACTUAL, every ACTUAL removed.
C7_PassThrough ==
  pc # "labelled" =>
    /\ norm \in STRING
    /\ normalize_rule(label).rule = 0 =>
         LET u == str_replace(str_upper(str_strip(label)), " ", "") IN
         norm = IF str_endswith(u, "ACTUAL") THEN str_replace(u, "ACTUAL", "") ELSE u

C7_Witness == pc = "normalized" /\ label = "FOO ACTUAL" /\ norm = "FOO"

\* C8: a token qQ<year><marker> (q in 1..4, year of two or four digits, marker
\* none, A, E or F) normalizes to qQYYYY, a two-digit year prefixed with 20,
\* followed by F iff the marker is E or F; a token MM/YYYY<marker> normalizes
\* to YYYY followed by F iff the marker is E or F.
C8_ExplicitMarker ==
  pc # "labelled" =>
    /\ \A q \in QuarterDigits, y \in Years2 \cup Years4, suf \in Markers :
         label = q \o "Q" \o y \o suf =>
           norm = q \o "Q" \o ExpandYear(y) \o (IF suf = "E" \/ suf = "F" THEN "F" ELSE "")
    /\ \A mm \in {"3", "12"}, y \in Years4, suf \in Markers :
         label = mm \o "/" \o y \o suf =>
           norm = y \o (IF suf = "E" \/ suf = "F" THEN "F" ELSE "")

C8_Witness == pc = "normalized" /\ label = "12/2025E" /\ norm = "2025F"

\* C9: a label MMM-YY, MMM/YY, MMM-YYYY or MMM/YYYY with a month abbreviation
\* normalizes to qQYYYY, q the calendar quarter of the month, followed by F
\* iff YYYY > 2025, or YYYY = 2025 and q > 2.
C9_MonthPolicy ==
  pc # "labelled" =>
    \A i \in 1..Len(Months), sep \in {"-", "/"}, y \in Years2 \cup Years4 :
      label = Months[i] \o sep \o y =>
        LET q == (i + 2) \div 3
            yyyy == ExpandYear(y)
            future == str_to_int(yyyy) > 2025 \/ (str_to_int(yyyy) = 2025 /\ q > 2)
        IN norm = int_to_str(q) \o "Q" \o yyyy \o (IF future THEN "F" ELSE "")


(***************************************************************************)
(* Specification SpecFold: fold_month_suffix_rows applied to one table     *)
(* whose columns are already normalized.                                   *)
(***************************************************************************)
MaxFoldRows == 2

FoldCols == <<"2025", "2025F", "1Q2025F">>
FoldRow(name, a, b, c) == Row(name, [k \in SeqSet(FoldCols) |->
                             IF k = "2025" THEN a ELSE IF k = "2025F" THEN b ELSE c])
FoldBaseLabels == {"FCF"}
FoldSuffixLabels ==
  {"FCF_Mar", "FCF_FY", "fcf FY RM", "DRAM_Dec", "DRAM_Dec_Mar"}
FoldRowKinds ==
  {FoldRow(n, NA, bc[1], bc[2]) :
     n \in FoldBaseLabels, bc \in {<<NA, NA>>, <<Num(7), NA>>, <<NA, Num(50)>>}}
    \cup {FoldRow(n, ab[1], ab[2], NA) :
            n \in FoldSuffixLabels,
            ab \in {<<NA, NA>>, <<NA, Num(300)>>, <<Num(200), Num(100)>>}}
\* tables over FoldCols, and tables that have lost every column
FoldTables ==
  {Table(FoldCols, rows) : rows \in UNION {[1..n -> FoldRowKinds] : n \in 0..MaxFoldRows}}
    \cup {Table(<<>>, rows) :
             rows \in UNION {[1..n -> {Row(l, <<>>) : l \in FoldBaseLabels \cup FoldSuffixLabels}] :
                               n \in 1..MaxFoldRows}}

InitFold == /\ pc = "table" /\ NoViz /\ NoJob /\ NoSummary
            /\ df \in FoldTables
            /\ out = NoTable
            /\ label = "" /\ norm = "" /\ renorm = ""
            /\ list_of_dfs = <<>> /\ errors = <<>> /\ missing_segments = None
            /\ company_name = ""

\* out = fold_month_suffix_rows(df)
Fold == /\ pc = "table"
        /\ out' = fold_month_suffix_rows(df)
        /\ pc' = "folded"
        /\ UNCHANGED <<label, norm, renorm, df, list_of_dfs, company_name, errors, missing_segments, viz, job, summary>>

NextFold == Fold

SpecFold == InitFold /\ [][NextFold]_vars

(***************************************************************************)
(* Claims about fold_month_suffix_rows (checked under SpecFold)            *)
(***************************************************************************)
\* what the labels of the model stand for: the base row and the quarter
\* prefix of the target column ("" for FY and FY RM)
FoldMeaning ==
  ("FCF_Mar" :> <<"FCF", "1Q">>)
    @@ ("FCF_FY" :> <<"FCF", "">>) @@ ("fcf FY RM" :> <<"FCF", "">>)
    @@ ("DRAM_Dec" :> <<"DRAM", "4Q">>) @@ ("DRAM_Dec_Mar" :> <<"DRAM_Dec", "1Q">>)

IsSuffixed(r) == r.name \in DOMAIN FoldMeaning
BaseOf(r) == FoldMeaning[r.name][1]
TargetOf(r, c) == FoldMeaning[r.name][2] \o c
YearCols == {"2025", "2025F"}

\* the value the base row of suffixed row r holds at the target of column c
\* before the fold (missing when the table has no such row or column)
PriorAtTarget(r, c) ==
  IF has_row(df, BaseOf(r)) THEN cell(row_of(df, BaseOf(r)), TargetOf(r, c)) ELSE NA

HoldsAt(d, name, c, v) == \E j \in 1..Len(d.rows) : d.rows[j].name = name /\ cell(d.rows[j], c) = v

Nested(r) ==
  \/ BaseOf(r) \in DOMAIN FoldMeaning
  \/ \E j \in 1..Len(df.rows) : IsSuffixed(df.rows[j]) /\ BaseOf(df.rows[j]) = r.name

\* an earlier suffixed row holds a value for the same cell of the same base row
EarlierSupplier(i, c) ==
  \E j \in 1..(i - 1), c2 \in YearCols :
    /\ IsSuffixed(df.rows[j]) /\ BaseOf(df.rows[j]) = BaseOf(df.rows[i])
    /\ TargetOf(df.rows[j], c2) = TargetOf(df.rows[i], c)
    /\ ~isna(df.rows[j].v[c2])

RECURSIVE Pow10(_)
Pow10(k) == IF k = 0 THEN 1 ELSE 10 * Pow10(k - 1)

Abs(x) == IF x < 0 THEN -x ELSE x

RECURSIVE mk_num(_, _)
mk_num(n, p) == IF p > 0 /\ n % 10 = 0 THEN mk_num(n \div 10, p - 1) ELSE Dec(n, p)

num_lt(a, b) == a.n * Pow10(b.p) < b.n * Pow10(a.p)
num_add(a, b) == mk_num(a.n * Pow10(b.p) + b.n * Pow10(a.p), a.p + b.p)
num_times(a, k) == mk_num(a.n * k, a.p)

(***************************************************************************)
(* Merging of the rows that share a base name                              *)
(***************************************************************************)
\* the defaults of merge_duplicate_rows; tolerance and tolerance_ratio are
\* 0.05, written as 1/20 and as 95/100, 105/100 below
large_diff_target == 1000

\* make_index_unique: the k-th repetition of a name becomes "name (k)"
make_index_unique(index_list) ==
  [i \in 1..Len(index_list) |->
     IF \E j \in 1..(i - 1) : index_list[j] = index_list[i]
     THEN index_list[i] \o " ("
            \o int_to_str(Cardinality({j \in 1..(i - 1) : index_list[j] = index_list[i]})) \o ")"
     ELSE index_list[i]]

\* re.sub(r"\s*\([^\)]*\)", "", s) from position i on
RECURSIVE strip_parens(_, _)
\* the end of the whitespace that starts at i
space_end(s, i) ==
  or_end(s, FirstOf({j \in i..Len(s) : IndexIn(CharAt(s, j), Whitespace) = 0}))
\* the position of the ) of a parenthetical that starts at j, 0 for none
paren_end(s, j) ==
  IF j <= Len(s) /\ CharAt(s, j) = "(" THEN IndexFrom(")", s, j + 1) ELSE 0
\* the text up to the match that starts at j, and the rest without its matches
strip_from(s, i, j) ==
  IF j = 0 THEN SubSeq(s, i, Len(s))
  ELSE SubSeq(s, i, j - 1) \o strip_parens(s, paren_end(s, space_end(s, j)) + 1)
strip_parens(s, i) ==
  strip_from(s, i, FirstOf({j \in i..Len(s) : paren_end(s, space_end(s, j)) > 0}))

get_base_name(idx) == str_strip(strip_parens(str_strip(idx), 1))

\* characters in code point order, for the comparison of strings
Ascii ==
  "\t !#$%&'()*+,-./0123456789:;<=>?@ABCDEFGHIJKLMNOPQRSTUVWXYZ[]^_abcdefghijklmnopqrstuvwxyz{|}~"

\* a < b, decided at the first position d where they differ
str_lt_at(a, b, d) ==
  IF d = 0 THEN Len(a) < Len(b)
  ELSE IndexIn(CharAt(a, d), Ascii) < IndexIn(CharAt(b, d), Ascii)
str_lt(a, b) ==
  str_lt_at(a, b, FirstOf({i \in 1..MinOf({Len(a), Len(b)}) : CharAt(a, i) # CharAt(b, i)}))

\* the keys of groupby, sorted
RECURSIVE sorted_keys(_)
least_key(S) == CHOOSE x \in S : \A y \in S : x = y \/ str_lt(x, y)
sorted_keys(S) == IF S = {} THEN <<>> ELSE <<least_key(S)>> \o sorted_keys(S \ {least_key(S)})

\* rel_diff <= tolerance, with tolerance = 0.05 = 1/20
rel_close(v1, v2) ==
  20 * Abs(v1.n * Pow10(v2.p) - v2.n * Pow10(v1.p))
    <= (IF Abs(v1.n * Pow10(v2.p)) > Abs(v2.n * Pow10(v1.p))
        THEN Abs(v1.n * Pow10(v2.p)) ELSE Abs(v2.n * Pow10(v1.p)))

\* lower <= max/(min + 1e-12) <= upper with lower = 950.0 and upper = 1050.0:
\* the 1e-12 keeps a ratio of exactly 950 and a zero minimum out of the band
ratio_in_band(big, small) ==
  large_diff_target * 95 * small < 100 * big /\ 100 * big <= large_diff_target * 105 * small

in_band(v1, v2) ==
  IF Abs(v1.n * Pow10(v2.p)) > Abs(v2.n * Pow10(v1.p))
  THEN ratio_in_band(Abs(v1.n * Pow10(v2.p)), Abs(v2.n * Pow10(v1.p)))
  ELSE ratio_in_band(Abs(v2.n * Pow10(v1.p)), Abs(v1.n * Pow10(v2.p)))

\* the comparison of one column of the merged row and the candidate; a text
\* cell is one that float() rejects
cell_verdict(val1, val2) ==
  IF isna(val1) \/ isna(val2) THEN "continue"
  ELSE IF val1.t # "num" \/ val2.t # "num" THEN "break"
  ELSE IF rel_close(val1, val2) THEN "continue"
  ELSE IF in_band(val1, val2) THEN "scale"
  ELSE "break"

this_merge_possible(merged, current) ==
  \A c \in DOMAIN merged : cell_verdict(merged[c], current[c]) # "break"

scale_entire_row(merged, current) ==
  \E c \in DOMAIN merged : cell_verdict(merged[c], current[c]) = "scale"

\* pd.to_numeric(v, errors='coerce')
to_numeric(v) == IF v.t = "num" THEN v ELSE NA

\* Series.sum(skipna=True) over the columns cs
RECURSIVE row_sum(_, _)
row_sum(v, cs) ==
  IF cs = {} THEN Num(0)
  ELSE LET c == CHOOSE x \in cs : TRUE IN
       IF isna(to_numeric(v[c])) THEN row_sum(v, cs \ {c})
       ELSE num_add(to_numeric(v[c]), row_sum(v, cs \ {c}))

\* fill_scaled without the multiplication
fill_scaled_Unscaled(base_row, scaled) ==
  [c \in DOMAIN base_row |->
     IF isna(to_numeric(base_row[c])) /\ ~isna(to_numeric(scaled[c]))
     THEN scaled[c] ELSE to_numeric(base_row[c])]

\* the cells of base_row, its missing ones from scaled times large_diff_target
fill_scaled(base_row, scaled) ==
  [c \in DOMAIN base_row |->
     IF isna(to_numeric(base_row[c])) /\ ~isna(to_numeric(scaled[c]))
     THEN num_times(scaled[c], large_diff_target) ELSE to_numeric(base_row[c])]

merge_scaled(merged, current) ==
  IF num_lt(row_sum(merged, DOMAIN merged), row_sum(current, DOMAIN current))
  THEN fill_scaled(current, merged) ELSE fill_scaled(merged, current)

\* merge_fill that takes a text as well
merge_fill_AnyValue(merged, current) ==
  [c \in DOMAIN merged |-> IF isna(merged[c]) THEN current[c] ELSE merged[c]]

\* merge_fill that leaves the merged row as it is
merge_fill_Keep(merged, current) == merged

\* merged[col] = float(current[col]) where merged is missing; the float() of
\* a text raises and the cell stays missing
merge_fill(merged, current) ==
  [c \in DOMAIN merged |->
     IF isna(merged[c]) /\ current[c].t = "num" THEN current[c] ELSE merged[c]]

\* the loop over the candidates group[i..] of one group
RECURSIVE merge_group(_, _, _, _)
merge_group(merged, group, i, unmerged) ==
  IF i > Len(group) THEN [merged |-> merged, unmerged |-> unmerged]
  ELSE IF ~this_merge_possible(merged, group[i].v)
       THEN merge_group(merged, group, i + 1, Append(unmerged, group[i]))
  ELSE IF scale_entire_row(merged, group[i].v)
       THEN merge_group(merge_scaled(merged, group[i].v), group, i + 1, unmerged)
  ELSE merge_group(merge_fill(merged, group[i].v), group, i + 1, unmerged)

\* the rows of d whose base name is base_idx, in the order of d
group_of(d, base_idx) ==
  LET same(r) == get_base_name(r.name) = base_idx IN SelectSeq(d.rows, same)

\* the merged row and the unmerged rows of every group, in the order of keys
RECURSIVE merge_groups(_, _, _)
merge_one(g) == merge_group(g[1].v, g, 2, <<>>)
merge_groups(d, keys, k) ==
  IF k > Len(keys) THEN <<>>
  ELSE <<[name |-> keys[k], m |-> merge_one(group_of(d, keys[k]))]>> \o merge_groups(d, keys, k + 1)

RECURSIVE merged_rows(_, _)
merged_rows(gs, k) ==
  IF k > Len(gs) THEN <<>> ELSE <<Row(gs[k].name, gs[k].m.merged)>> \o merged_rows(gs, k + 1)

RECURSIVE unmerged_rows(_, _)
unmerged_rows(gs, k) ==
  IF k > Len(gs) THEN <<>> ELSE gs[k].m.unmerged \o unmerged_rows(gs, k + 1)

rename_rows(rows, names) == [i \in 1..Len(rows) |-> Row(names[i], rows[i].v)]

row_names(rows) == [i \in 1..Len(rows) |-> rows[i].name]

merge_result(cols, gs) ==
  Table(cols, merged_rows(gs, 1)
                \o rename_rows(unmerged_rows(gs, 1),
                               make_index_unique(row_names(unmerged_rows(gs, 1)))))

base_names(d) == {get_base_name(d.rows[i].name) : i \in 1..Len(d.rows)}

merge_duplicate_rows(d) ==
  IF d.raised THEN Raised
  ELSE IF Len(d.rows) = 0 THEN NoTable
  ELSE merge_result(d.cols, merge_groups(d, sorted_keys(base_names(d)), 1))

(***************************************************************************)
(* Specification SpecMerge: merge_duplicate_rows applied to one table      *)
(***************************************************************************)
MaxMergeRows == 2

MergeCols == <<"2024", "2025">>
MergeRow(name, a, b) == Row(name, [k \in SeqSet(MergeCols) |-> IF k = "2024" THEN a ELSE b])
MergeLabels == {"FCF", "FCF (1)", "OP"}
\* 10 and 20 conflict; 10 and 10000 or 10400 are in ratio about 1000; 10000
\* and 10400 differ by less than 5%; 3 and 20 conflict
MergeCells ==
  {<<Num(10), NA>>, <<Num(20), NA>>, <<Num(10000), NA>>, <<Num(10), Num(3)>>,
   <<Num(10400), Num(20)>>, <<NA, Num(10000)>>, <<Str("x"), NA>>, <<NA, NA>>}
MergeRowKinds == {MergeRow(n, ab[1], ab[2]) : n \in MergeLabels, ab \in MergeCells}
MergeTables ==
  {Table(MergeCols, rows) : rows \in UNION {[1..n -> MergeRowKinds] : n \in 0..MaxMergeRows}}

InitMerge == /\ pc = "table" /\ NoViz /\ NoJob /\ NoSummary
             /\ df \in MergeTables
             /\ out = NoTable
             /\ label = "" /\ norm = "" /\ renorm = ""
             /\ list_of_dfs = <<>> /\ errors = <<>> /\ missing_segments = None
             /\ company_name = ""

\* out = merge_duplicate_rows(df)
Merge == /\ pc = "table"
         /\ out' = merge_duplicate_rows(df)
         /\ pc' = "merged"
         /\ UNCHANGED <<label, norm, renorm, df, list_of_dfs, company_name, errors, missing_segments, viz, job, summary>>

NextMerge == Merge

SpecMerge == InitMerge /\ [][NextMerge]_vars

(***************************************************************************)
(* Claims about merge_duplicate_rows (checked under SpecMerge)             *)
(***************************************************************************)
\* the names the labels of the model share
BaseLabel(l) == IF l = "FCF (1)" THEN "FCF" ELSE l

RowsOfBase(d, b) == {i \in 1..Len(d.rows) : BaseLabel(d.rows[i].name) = b}

\* a cell both rows hold and that is a text in one of them, or a number in
\* both with a difference above 5% and a ratio outside 950..1050
Conflict(v, w) ==
  \E c \in DOMAIN v :
    /\ ~isna(v[c]) /\ ~isna(w[c])
    /\ \/ v[c] # w[c] /\ (v[c].t = "str" \/ w[c].t = "str")
       \/ /\ v[c].t = "num" /\ w[c].t = "num"
          /\ ~rel_close(v[c], w[c]) /\ ~in_band(v[c], w[c])

\* the candidate of a two-row group is in the output with its values, next to
\* the first row of the group, and these are the two rows of that base name
QuarantinedKept(i, j) ==
  \E k, m \in RowsOfBase(out, BaseLabel(df.rows[i].name)) :
    /\ k # m
    /\ out.rows[m].v = df.rows[i].v
    /\ out.rows[k].v = df.rows[j].v
    /\ RowsOfBase(out, BaseLabel(df.rows[i].name)) = {k, m}

\* ... under a label no other row of the output carries
QuarantinedDistinct(i, j) ==
  \E k \in 1..Len(out.rows) :
    /\ out.rows[k].v = df.rows[j].v
    /\ BaseLabel(out.rows[k].name) = BaseLabel(df.rows[j].name)
    /\ \A m \in 1..Len(out.rows) : m # k => out.rows[m].name # out.rows[k].name

\* C2: in every two-row group whose second row cannot be merged into the
\* first, the second row appears in the output as its own row with its
\* original values, under a label that differs from every other output
\* label, and the output has two rows for the group.
C2_QuarantinedKeptDistinct ==
  pc = "merged" =>
    \A i, j \in 1..Len(df.rows) :
      (/\ i < j
       /\ RowsOfBase(df, BaseLabel(df.rows[i].name)) = {i, j}
       /\ Conflict(df.rows[i].v, df.rows[j].v))
        => QuarantinedKept(i, j) /\ QuarantinedDistinct(i, j)

\* the rows i < j are the two rows of their base name
TwoRowGroup(i, j) == i < j /\ RowsOfBase(df, BaseLabel(df.rows[i].name)) = {i, j}

\* every cell of the row is a number or missing
Numeric(v) == \A c \in DOMAIN v : isna(v[c]) \/ v[c].t = "num"

\* the sum of the numbers of a row
Total(v) == row_sum(v, DOMAIN v)

\* the row big, each of its missing cells holding 1000 times the cell of small
ScaleUpOf(big, small) ==
  [c \in DOMAIN big |->
     IF isna(big[c]) /\ ~isna(small[c]) THEN num_times(small[c], 1000) ELSE big[c]]

\* the results of scaling up the row with the smaller total (either, of equal totals)
ScaleUpResults(v, w) ==
  (IF num_lt(Total(w), Total(v)) THEN {} ELSE {ScaleUpOf(w, v)})
    \cup (IF num_lt(Total(v), Total(w)) THEN {} ELSE {ScaleUpOf(v, w)})

\* the output holds one row of the base name of row i, a scale-up of rows i and j
ScaledUp(i, j) ==
  \E k \in 1..Len(out.rows) :
    /\ RowsOfBase(out, BaseLabel(df.rows[i].name)) = {k}
    /\ out.rows[k].v \in ScaleUpResults(df.rows[i].v, df.rows[j].v)

\* C11 as stated: two rows of the same base name whose column totals are in
\* ratio about 1000 (within 5%) are merged by the scale-up path: one output
\* row, the row with the larger total with its missing cells filled by 1000
\* times the cells of the other row, and no quarantined row.
C11_TotalsTriggerScaleUp ==
  pc = "merged" =>
    \A i, j \in 1..Len(df.rows) :
      (/\ TwoRowGroup(i, j)
       /\ Numeric(df.rows[i].v) /\ Numeric(df.rows[j].v)
       /\ in_band(Total(df.rows[i].v), Total(df.rows[j].v)))
        => ScaledUp(i, j)

\* some column holds numbers in both rows that differ by more than 5% and are
\* in ratio about 1000, and every column that both rows hold is within 5% or
\* in that ratio
ScalePair(v, w) ==
  /\ \E c \in DOMAIN v : /\ ~isna(v[c]) /\ ~isna(w[c])
                         /\ ~rel_close(v[c], w[c]) /\ in_band(v[c], w[c])
  /\ \A c \in DOMAIN v : (~isna(v[c]) /\ ~isna(w[c]))
                            => (rel_close(v[c], w[c]) \/ in_band(v[c], w[c]))

\* C11 (amended): two numeric rows of the same base name that hold, in some
\* column, values in ratio about 1000, and in no column values that conflict
\* otherwise, are merged by the scale-up path; the totals only choose the row
\* that is scaled.
C11_CellsTriggerScaleUp ==
  pc = "merged" =>
    \A i, j \in 1..Len(df.rows) :
      (/\ TwoRowGroup(i, j)
       /\ Numeric(df.rows[i].v) /\ Numeric(df.rows[j].v)
       /\ ScalePair(df.rows[i].v, df.rows[j].v))
        => ScaledUp(i, j)

C11_Witness ==
  /\ pc = "merged"
  /\ df.rows = <<MergeRow("FCF", Num(10), Num(3)), MergeRow("FCF (1)", Num(10000), NA)>>
  /\ out.rows = <<MergeRow("FCF", Num(10000), Num(3000))>>

\* every column that both rows hold holds numbers that differ by at most 5%
Consistent(v, w) ==
  \A c \in DOMAIN v :
    (~isna(v[c]) /\ ~isna(w[c]))
      => (v[c].t = "num" /\ w[c].t = "num" /\ rel_close(v[c], w[c]))

\* the output holds one row of the base name of row i, with the cells vals
MergedAs(i, vals) ==
  \E k \in 1..Len(out.rows) :
    /\ RowsOfBase(out, BaseLabel(df.rows[i].name)) = {k}
    /\ out.rows[k].v = vals

\* C12 as stated: two rows of the same base name that differ by at most 5%
\* in every column both hold give one output row, nothing scaled, nothing
\* quarantined: each cell the first row holds keeps its value and each cell
\* missing in the first row takes the value of the second row.
C12_ConsistentMergeTakesSecond ==
  pc = "merged" =>
    \A i, j \in 1..Len(df.rows) :
      (TwoRowGroup(i, j) /\ Consistent(df.rows[i].v, df.rows[j].v))
        => MergedAs(i, [c \in DOMAIN df.rows[i].v |->
                          IF ~isna(df.rows[i].v[c]) THEN df.rows[i].v[c] ELSE df.rows[j].v[c]])

\* C12 (amended): ... each cell missing in the first row takes the value of
\* the second row when that value is a number, and stays missing when it is
\* a text.
C12_ConsistentMergeTakesNumbers ==
  pc = "merged" =>
    \A i, j \in 1..Len(df.rows) :
      (TwoRowGroup(i, j) /\ Consistent(df.rows[i].v, df.rows[j].v))
        => MergedAs(i, [c \in DOMAIN df.rows[i].v |->
                          IF ~isna(df.rows[i].v[c]) THEN df.rows[i].v[c]
                          ELSE IF df.rows[j].v[c].t = "num" THEN df.rows[j].v[c] ELSE NA])

C12_Witness ==
  /\ pc = "merged"
  /\ df.rows = <<MergeRow("FCF", Num(10000), NA), MergeRow("FCF (1)", Num(10400), Num(20))>>
  /\ out.rows = <<MergeRow("FCF", Num(10000), Num(20))>>

(***************************************************************************)
(* The AMD template                                                        *)
(***************************************************************************)
\* the columns of create_amd_template_df that amd_template_data has keys for
amd_data_columns ==
  <<"2023", "2024", "2025F", "2026F", "1Q24", "2Q24", "3Q24", "4Q24", "1Q25", "2Q25", "3Q25F", "4Q25F">>

amd_template_columns ==
  <<"Company", "2023", "2024", "2025F", "2026F", "2027F",
    "1Q24", "2Q24", "3Q24", "4Q24", "1Q25", "2Q25", "3Q25F", "4Q25F">>

\* amd_template_data: per metric, the values in the order of amd_data_columns
amd_template_data ==
  << <<"Revenue", <<Num(22680), Num(25785), Num(32659), Num(38178), Num(5473), Num(5835),
                    Num(6819), Num(7658), Num(7438), Num(7685), Num(8738), Num(8798)>> >>,
     <<"COGS", <<Num(11244), Num(12026), Num(15784), Num(16879), Num(2612), Num(2734),
                 Num(3162), Num(3518), Num(3446), Num(4359), Num(4019), Num(3959)>> >>,
     <<"GP", <<Num(11436), Num(13759), Num(16876), Num(21299), Num(2861), Num(3101),
               Num(3657), Num(4140), Num(3992), Num(3326), Num(4719), Num(4839)>> >>,
     <<"OP", <<Num(4834), Num(6138), Num(7019), Num(9994), Num(1133), Num(1264),
               Num(1715), Num(2026), Num(1779), Num(897), Num(2169), Num(2174)>> >>,
     <<"NP", <<Num(4292), Num(5420), Num(6142), Num(8747), Num(1013), Num(1126),
               Num(1504), Num(1777), Num(1566), Num(781), Num(1895), Num(1900)>> >>,
     <<"EPS", <<Dec(264, 2), Dec(331, 2), Dec(377, 2), Dec(534, 2), Dec(62, 2), Dec(69, 2),
                Dec(92, 2), Dec(109, 2), Dec(96, 2), Dec(48, 2), Dec(116, 2), Dec(116, 2)>> >> >>

\* the position of column c among amd_data_columns, 0 when it has no data
amd_data_index(c) ==
  IF \E i \in 1..Len(amd_data_columns) : amd_data_columns[i] = c
  THEN CHOOSE i \in 1..Len(amd_data_columns) : amd_data_columns[i] = c ELSE 0

\* the row of a metric: 'AMD', the data, '' for 2027F
amd_row(metric, data) ==
  Row(metric, [c \in SeqSet(amd_template_columns) |->
                 IF c = "Company" THEN Str("AMD")
                 ELSE IF amd_data_index(c) > 0 THEN data[amd_data_index(c)]
                 ELSE Str("")])

\* round((op_val / rev_val) * 100, 1) of two whole numbers
op_margin(op_val, rev_val) ==
  mk_num((2 * op_val.n * 1000 + rev_val.n) \div (2 * rev_val.n), 1)

op_margin_row ==
  [k \in 1..Len(amd_data_columns) |-> op_margin(amd_template_data[4][2][k], amd_template_data[1][2][k])]

create_amd_template_df ==
  Table(amd_template_columns,
        [k \in 1..Len(amd_template_data) |-> amd_row(amd_template_data[k][1], amd_template_data[k][2])]
          \o <<amd_row("OP margin", op_margin_row)>>)

is_amd_company(name) ==
  /\ name # ""
  /\ \/ str_contains(str_lower(name), "amd")
     \/ str_contains(str_lower(name), "advanced micro devices")

\* the template fills every cell, whatever it holds
template_fills_Always(existing_val, template_val) == template_val # Str("")

\* (pd.isna(existing_val) or existing_val == '') and template_val != ''
template_fills(existing_val, template_val) ==
  (isna(existing_val) \/ existing_val = Str("")) /\ template_val # Str("")

\* combined_df.loc[metric] = template_df.loc[metric] for a new label: the
\* template row over the columns of the table
template_new_row(d, trow) ==
  [d EXCEPT !.rows = Append(d.rows, Row(trow.name, [c \in ColSet(d) |-> cell(trow, c)]))]

\* the loop over template_df.columns for a metric the table has
template_fill_row(d, trow) ==
  [d EXCEPT !.rows = [i \in 1..Len(d.rows) |->
     IF d.rows[i].name # trow.name THEN d.rows[i]
     ELSE Row(trow.name, [c \in ColSet(d) |->
            IF c \in DOMAIN trow.v /\ template_fills(d.rows[i].v[c], trow.v[c])
            THEN trow.v[c] ELSE d.rows[i].v[c]])]]

\* one metric of the template; the cell of a repeated label is a Series,
\* whose truth value raises
template_metric(d, trow) ==
  IF d.raised THEN d
  ELSE IF ~has_row(d, trow.name) THEN template_new_row(d, trow)
  ELSE IF row_count(d, trow.name) > 1 /\ ColSet(d) \cap DOMAIN trow.v # {} THEN Raised
  ELSE template_fill_row(d, trow)

RECURSIVE template_metrics(_, _, _)
template_metrics(d, trows, k) ==
  IF k > Len(trows) THEN d ELSE template_metrics(template_metric(d, trows[k]), trows, k + 1)

apply_amd_template_if_needed(d, name) ==
  IF d.raised THEN Raised
  ELSE IF ~is_amd_company(name) THEN d
  ELSE IF df_empty(d) THEN create_amd_template_df
  ELSE template_metrics(d, create_amd_template_df.rows, 1)

(***************************************************************************)
(* Specification SpecTemplate: apply_amd_template_if_needed applied to a   *)
(* reconciled table                                                        *)
(***************************************************************************)
MaxTemplateRows == 2

\* a column of the template with data, one the template leaves empty, and a
\* quarter in the form normalize_period_label gives, which the template
\* names 1Q25
TemplateCols == <<"2023", "2027F", "1Q2025">>
TemplateRow(name, abc) ==
  Row(name, [k \in SeqSet(TemplateCols) |->
               IF k = "2023" THEN abc[1] ELSE IF k = "2027F" THEN abc[2] ELSE abc[3]])
TemplateRowKinds ==
  {TemplateRow(n, abc) :
     n \in {"Revenue", "EPS", "FCF"},
     abc \in {<<Num(99), NA, NA>>, <<NA, NA, Num(40)>>, <<Str(""), Str(""), NA>>, <<NA, Str("x"), NA>>}}
TemplateTables ==
  {Table(TemplateCols, rows) : rows \in UNION {[1..n -> TemplateRowKinds] : n \in 0..MaxTemplateRows}}
Companies == {"AMD", "Advanced Micro Devices", "Nvidia", ""}

InitTemplate == /\ pc = "table" /\ NoViz /\ NoJob /\ NoSummary
                /\ df \in TemplateTables
                /\ company_name \in Companies
                /\ out = NoTable
                /\ label = "" /\ norm = "" /\ renorm = ""
                /\ list_of_dfs = <<>> /\ errors = <<>> /\ missing_segments = None

\* out = apply_amd_template_if_needed(df, company_name)
ApplyTemplate == /\ pc = "table"
                 /\ out' = apply_amd_template_if_needed(df, company_name)
                 /\ pc' = "enriched"
                 /\ UNCHANGED <<label, norm, renorm, df, list_of_dfs, company_name, errors, missing_segments, viz, job, summary>>

NextTemplate == ApplyTemplate

SpecTemplate == InitTemplate /\ [][NextTemplate]_vars

(***************************************************************************)
(* Claims about apply_amd_template_if_needed (checked under SpecTemplate)  *)
(***************************************************************************)
\* C5: enrichment never overwrites extracted data: every cell of the
\* extracted table that holds a non-missing, non-empty value holds the same
\* value, in the same row, after enrichment; for a company that is not AMD
\* the table is returned unchanged.
C5_TemplateNeverOverwrites ==
  (pc = "enriched" /\ ~out.raised) =>
    /\ \A i \in 1..Len(df.rows), c \in ColSet(df) :
         (~isna(df.rows[i].v[c]) /\ df.rows[i].v[c] # Str("")) =>
           /\ i <= Len(out.rows)
           /\ out.rows[i].name = df.rows[i].name
           /\ cell(out.rows[i], c) = df.rows[i].v[c]
    /\ company_name \in {"Nvidia", ""} => out = df

C5_Witness ==
  /\ pc = "enriched" /\ ~out.raised
  /\ company_name = "AMD"
  /\ df.rows = <<TemplateRow("Revenue", <<Num(99), NA, NA>>)>>
  /\ out.rows[1] = TemplateRow("Revenue", <<Num(99), NA, NA>>)
  /\ HoldsAt(out, "COGS", "2023", Num(11244))

\* the labels c and tc denote the same period
Denotes(c, tc) == normalize_period_label(c) = normalize_period_label(tc)

\* the periods for which the template row holds a value
TemplatePeriods(trow) == {tc \in DOMAIN trow.v : tc # "Company" /\ trow.v[tc] # Str("")}

Present(val) == ~isna(val) /\ val # Str("")

\* the value the extracted table holds for metric m at column c, NA for none
Extracted(m, c) == IF has_row(df, m) THEN cell(row_of(df, m), c) ELSE NA

\* the result holds v for metric m in a column that denotes the period of tc
HoldsPeriod(m, tc, v) == \E c \in ColSet(out) : Denotes(c, tc) /\ HoldsAt(out, m, c, v)

\* C13: for a recognized company, for each template metric and each period
\* for which the template holds a value and the extracted table has a column
\* denoting that period, the result cell is non-missing, equal to the
\* extracted value when one was present and to the template value otherwise;
\* a template metric absent from the extracted table is inserted with all of
\* its template values.
C13_TemplateFillsEveryGap ==
  (pc = "enriched" /\ ~out.raised /\ is_amd_company(company_name)) =>
    \A k \in 1..Len(create_amd_template_df.rows) :
      \A tc \in TemplatePeriods(create_amd_template_df.rows[k]) :
        /\ \A c \in ColSet(df) :
             Denotes(c, tc) =>
               HoldsPeriod(create_amd_template_df.rows[k].name, tc,
                       IF Present(Extracted(create_amd_template_df.rows[k].name, c))
                       THEN Extracted(create_amd_template_df.rows[k].name, c)
                       ELSE create_amd_template_df.rows[k].v[tc])
        /\ ~has_row(df, create_amd_template_df.rows[k].name) =>
             HoldsPeriod(create_amd_template_df.rows[k].name, tc,
                         create_amd_template_df.rows[k].v[tc])

(***************************************************************************)
(* Cleaning of one extracted table                                         *)
(***************************************************************************)
\* EXCLUDE_COL_TOKENS, but for the token that is the Greek letter delta,
\* which no label of the model holds
EXCLUDE_COL_TOKENS ==
  <<"DELTA", "CONSENSUS", "CONS.", "VS CONSENSUS", "%", "REVISED", "PREVIOUS", "CHG.", "CHG",
    "CHANGE", "2025E.1", "YR", "YR.1", "YR.2", "_CHG">>

has_col_token(s) ==
  str_endswith(s, "_CHG")
    \/ \E k \in 1..Len(EXCLUDE_COL_TOKENS) : str_contains(s, EXCLUDE_COL_TOKENS[k])

\* the columns normalize_df_columns drops
is_drop_col(c) == has_col_token(str_upper(str_strip(c)))

\* df.drop(columns=cs)
drop_cols(d, cs) ==
  LET keep(c) == c \notin cs IN
  [d EXCEPT !.cols = SelectSeq(d.cols, keep),
            !.rows = [i \in 1..Len(d.rows) |->
                        Row(d.rows[i].name, [c \in ColSet(d) \ cs |-> d.rows[i].v[c]])]]

\* bfill(axis=1).iloc[:, 0] over the columns old[k..] that are renamed to c
RECURSIVE first_valid(_, _, _, _, _)
first_valid(v, old, new, c, k) ==
  IF k > Len(old) THEN NA
  ELSE IF new[k] = c /\ ~isna(v[old[k]]) THEN v[old[k]]
  ELSE first_valid(v, old, new, c, k + 1)

\* the labels of new in the order of their first occurrence
seen_order(new) ==
  LET first(k) == \A j \in 1..(k - 1) : new[j] # new[k]
      idx == SelectSeq([k \in 1..Len(new) |-> k], first)
  IN [i \in 1..Len(idx) |-> new[idx[i]]]

\* df.columns = new, then collapse_duplicate_columns
rename_cols(d, new) ==
  [d EXCEPT !.cols = seen_order(new),
            !.rows = [i \in 1..Len(d.rows) |->
                        Row(d.rows[i].name,
                            [c \in SeqSet(new) |-> first_valid(d.rows[i].v, d.cols, new, c, 1)])]]

normalized_cols(cols) == [k \in 1..Len(cols) |-> normalize_period_label(cols[k])]

normalize_kept(d) == IF df_empty(d) THEN d ELSE rename_cols(d, normalized_cols(d.cols))

normalize_df_columns(d) ==
  IF d.raised \/ df_empty(d) THEN d
  ELSE normalize_kept(drop_cols(d, {c \in ColSet(d) : is_drop_col(c)}))

\* the label the data of an ACTUAL column moves to
actual_target(col) == normalize_period_label(str_replace(str_upper(col), "ACTUAL", ""))

\* cols_to_process
actual_cols(cols) ==
  LET is_actual(c) == str_contains(str_upper(c), "ACTUAL") /\ actual_target(c) # "" IN
  SelectSeq(cols, is_actual)

\* the move of one ACTUAL column into target: into missing cells only
move_actual(d, original_col, target) ==
  [d EXCEPT !.rows = [i \in 1..Len(d.rows) |->
     Row(d.rows[i].name,
         [d.rows[i].v EXCEPT ![target] =
            IF isna(@) /\ ~isna(d.rows[i].v[original_col]) THEN d.rows[i].v[original_col] ELSE @])]]

with_col(d, c) == IF c \in ColSet(d) THEN d ELSE add_col(d, c)

RECURSIVE handle_actual_from(_, _, _)
handle_actual_from(d, todo, k) ==
  IF k > Len(todo) THEN d
  ELSE handle_actual_from(
         drop_cols(move_actual(with_col(d, actual_target(todo[k])), todo[k], actual_target(todo[k])),
                   {todo[k]}),
         todo, k + 1)

handle_actual_columns(d) ==
  IF d.raised \/ df_empty(d) THEN d ELSE handle_actual_from(d, actual_cols(d.cols), 1)

\* ^revenue[\s_\-\/]+(net|fy(?:rm)?|dec)$
is_unwanted_revenue(idx) ==
  re_match(idx, <<Lit("revenue"), Cls(Separators, 1, -1), Alt(<<"net", "fyrm", "fy", "dec">>)>>).ok

drop_unwanted_revenue_rows(d) ==
  IF d.raised \/ df_empty(d) THEN d
  ELSE LET keep(r) == ~is_unwanted_revenue(str_lower(str_strip(r.name))) IN
       [d EXCEPT !.rows = SelectSeq(d.rows, keep)]

\* EXCLUDE_ROW_PATTERNS, matched at the start of the label; of the
\* alternatives (old|...|delta|...) those written in ASCII
EXCLUDE_ROW_PATTERNS ==
  << <<Lit("fcf")>>, <<Lit("gp")>>,
     <<Lit("gross"), Cls(Whitespace, 0, -1), Lit("profit")>>,
     <<Lit("free"), Cls(Whitespace, 0, -1), Lit("cash"), Cls(Whitespace, 0, -1), Lit("flow")>> >>

is_unwanted_row(idx) ==
  \E k \in 1..Len(EXCLUDE_ROW_PATTERNS) :
    re_match(idx, EXCLUDE_ROW_PATTERNS[k]
                    \o <<Cls(Whitespace, 0, -1), AltCI(<<"old", "delta">>), NotCls("", 0, -1)>>).ok

remove_unwanted_rows(d) ==
  IF d.raised \/ df_empty(d) THEN d
  ELSE LET keep(r) == ~is_unwanted_row(str_lower(str_strip(r.name))) IN
       [d EXCEPT !.rows = SelectSeq(d.rows, keep)]

\* step (A) of process_extracted_dfs for one table
clean_table(d) ==
  remove_unwanted_rows(drop_unwanted_revenue_rows(fold_month_suffix_rows(
    handle_actual_columns(normalize_df_columns(d)))))

(***************************************************************************)
(* Classification of the rows of the concatenated table                    *)
(***************************************************************************)
\* the row r over the columns cs
rebase(r, cs) == Row(r.name, [c \in cs |-> cell(r, c)])

\* pd.concat([a, b], axis=0): the columns of a, then the new ones of b
concat2(a, b) ==
  LET new(c) == c \notin ColSet(a) IN
  IF a.raised \/ b.raised THEN Raised
  ELSE Table(a.cols \o SelectSeq(b.cols, new),
             [i \in 1..(Len(a.rows) + Len(b.rows)) |->
                rebase(IF i <= Len(a.rows) THEN a.rows[i] ELSE b.rows[i - Len(a.rows)],
                       ColSet(a) \cup ColSet(b))])

RECURSIVE concat(_, _)
concat(ts, k) == IF k > Len(ts) THEN NoTable ELSE concat2(ts[k], concat(ts, k + 1))

\* the rows of d labelled idx, under the label new_idx
rows_as(d, idx, new_idx) ==
  LET is(r) == r.name = idx IN rename_rows(SelectSeq(d.rows, is), [i \in 1..Len(d.rows) |-> new_idx])

\* pd.concat(rows) if rows else pd.DataFrame()
frame_of(d, rows) == IF rows = <<>> THEN NoTable ELSE Table(d.cols, rows)

\* if not t.empty: t.index = make_index_unique(t.index.tolist())
unique_index(t) ==
  IF df_empty(t) THEN t
  ELSE [t EXCEPT !.rows = rename_rows(t.rows, make_index_unique(row_names(t.rows)))]

\* ^([a-z\s]+?)(\s*\(.*?\))?$ with and without the optional group
rename_patterns ==
  << <<ClsLazy(LowerAlpha \o Whitespace, 1, -1), Cls(Whitespace, 0, -1), Lit("("),
       NotClsLazy("", 0, -1), Lit(")")>>,
     <<ClsLazy(LowerAlpha \o Whitespace, 1, -1)>> >>

\* renamed base and the suffix as matched; "" for None
renamed_with(m) ==
  IF ~m.ok \/ rename_get(str_strip(m.g[1]), "") = "" THEN ""
  ELSE rename_get(str_strip(m.g[1]), "")
         \o (IF m.v = 1 THEN m.g[2] \o m.g[3] \o m.g[4] \o m.g[5] ELSE "")

match_and_rename_index(idx) == renamed_with(re_first(str_lower(str_strip(idx)), rename_patterns, 1))

\* the groups of group_name_match and their keywords
keyword_groups ==
  << <<"CapEx", {"capital expenditures", "capital expenditure", "capex", "purchase of property",
                 "purchases of property", "purchase of pp&e", "additions to property",
                 "acquisition of property", "investment in property"}>>,
     <<"Acquisition & Equity Investment",
       {"acquisition", "business combinations", "purchase of subsidiaries",
        "investment in associates", "investment in affiliates", "equity investment",
        "purchase of business"}>>,
     <<"Intangible asset",
       {"intangible assets", "purchase of intangible", "software development",
        "internal-use software", "capitalized development costs", "goodwill and intangibles"}>>,
     <<"others", {"investing activities", "purchase of securities", "marketable securities",
                  "financial investment", "long-term investment"}>> >>

\* the first group with a keyword equal to the name; "" for None
RECURSIVE group_from(_, _)
group_from(name, k) ==
  IF k > Len(keyword_groups) THEN ""
  ELSE IF name \in keyword_groups[k][2] THEN keyword_groups[k][1] ELSE group_from(name, k + 1)

group_name_match(name) == group_from(str_lower(name), 1)

\* the rows of every label idxs[k..] that has a new name, under that name
RECURSIVE classified_rows(_, _, _, _)
classified_rows(d, idxs, names, k) ==
  IF k > Len(idxs) THEN <<>>
  ELSE (IF names[k] = "" THEN <<>> ELSE rows_as(d, idxs[k], names[k]))
         \o classified_rows(d, idxs, names, k + 1)

renamed_labels(idxs) == [k \in 1..Len(idxs) |-> match_and_rename_index(idxs[k])]

grouped_labels(idxs) == [k \in 1..Len(idxs) |-> group_name_match(idxs[k])]

\* 1) df_index_map: over the distinct labels
index_map_rows(d) ==
  unique_index(frame_of(d, classified_rows(d, seen_order(Labels(d)), renamed_labels(seen_order(Labels(d))), 1)))

\* 2) df_group_kw: over every label, repeated ones again
group_kw_rows(d) ==
  unique_index(frame_of(d, classified_rows(d, Labels(d), grouped_labels(Labels(d)), 1)))

\* company_segments
company_segments ==
  << <<"Nvidia", <<"Data Center", "Gaming", "Pro Visualization", "Automotive", "OEM & Other">> >>,
     <<"NVIDIA", <<"Data Center", "Gaming", "Pro Visualization", "Automotive", "OEM & Other">> >>,
     <<"google", <<"Google Services", "Google Cloud", "Other Bets">> >>,
     <<"Amazon", <<"North America", "International", "AWS", "Advertising">> >>,
     <<"Meta", <<"Family of Apps", "Reality Labs">> >>,
     <<"Microsoft", <<"Productivity", "Intelligent Cloud", "Personal Computing">> >>,
     <<"SK Hynix", <<"DRAM", "NAND">> >>,
     <<"Samsung Electronics", <<"DX", "DS", "Display", "Harman">> >>,
     <<"AMD", <<"Data Center", "Client", "Gaming", "Embedded">> >>,
     <<"Advanced Micro Devices", <<"Data Center", "Client", "Gaming", "Embedded">> >> >>

\* company_name in company_segments
has_segments(name) == \E k \in 1..Len(company_segments) : company_segments[k][1] = name

\* company_segments[name]
segments_of(name) ==
  company_segments[CHOOSE k \in 1..Len(company_segments) : company_segments[k][1] = name][2]

\* the rows whose label contains "revenue" and word, under the label new_idx
revenue_rows_with(d, word, new_idx) ==
  LET is(r) == str_contains(r.name, "revenue") /\ str_contains(r.name, word) IN
  rename_rows(SelectSeq(d.rows, is), [i \in 1..Len(d.rows) |-> new_idx])

\* the loop over company_segments[company_name]
RECURSIVE dictionary_rows(_, _, _)
dictionary_rows(d, segs, k) ==
  IF k > Len(segs) THEN <<>>
  ELSE revenue_rows_with(d, str_lower(segs[k]), "revenue-" \o segs[k])
         \o dictionary_rows(d, segs, k + 1)

SKIP_SEGMENT_WORDS == <<"growth", "margin", "qoq", "yoy", "mix", "asp", "price", "chg", "change">>

\* re.sub(r"\(.*?\)", "", s) from position i on
RECURSIVE remove_parens(_, _)
remove_from(s, i, j) ==
  IF j = 0 THEN SubSeq(s, i, Len(s))
  ELSE SubSeq(s, i, j - 1) \o remove_parens(s, paren_end(s, j) + 1)
remove_parens(s, i) == remove_from(s, i, FirstOf({j \in i..Len(s) : paren_end(s, j) > 0}))

\* what re.sub(r"[_\-\/]+", " ", s) leaves of the character at i
spaced_char(s, i) ==
  IF IndexIn(CharAt(s, i), "_-/") = 0 THEN CharAt(s, i)
  ELSE IF i > 1 /\ IndexIn(CharAt(s, i - 1), "_-/") > 0 THEN ""
  ELSE " "

\* re.sub(r"[_\-\/]+", " ", s) of the characters i..j
RECURSIVE spaced(_, _, _)
spaced(s, i, j) ==
  IF i > j THEN ""
  ELSE IF i = j THEN spaced_char(s, i)
  ELSE spaced(s, i, (i + j) \div 2) \o spaced(s, (i + j) \div 2 + 1, j)

is_letter(c) == IndexIn(c, LowerAlpha) > 0 \/ IndexIn(c, UpperAlpha) > 0

\* str.title(): a letter after a letter in lower case, any other in upper case
title_char(s, i) ==
  IF i > 1 /\ is_letter(CharAt(s, i - 1)) THEN lower_char(CharAt(s, i))
  ELSE upper_char(CharAt(s, i))

RECURSIVE title(_, _, _)
title(s, i, j) ==
  IF i > j THEN ""
  ELSE IF i = j THEN title_char(s, i)
  ELSE title(s, i, (i + j) \div 2) \o title(s, (i + j) \div 2 + 1, j)

str_title(s) == title(s, 1, Len(s))

\* ^revenue[\s\-_\/]+(.+)$ or ^(.+)[\s\-_\/]+revenue$
segment_patterns ==
  << <<Lit("revenue"), Cls(Separators, 1, -1), NotCls("", 1, -1)>>,
     <<NotCls("", 1, -1), Cls(Separators, 1, -1), Lit("revenue")>> >>

\* the text of the segment in the match m, parentheticals removed
segment_text(m) ==
  IF ~m.ok THEN "" ELSE str_strip(remove_parens(IF m.v = 1 THEN m.g[3] ELSE m.g[1], 1))

has_skip_word(seg) == \E k \in 1..Len(SKIP_SEGMENT_WORDS) : str_contains(seg, SKIP_SEGMENT_WORDS[k])

\* ^(net|fy(?:\s*rm)?|dec)$
is_unwanted_segment(seg) ==
  seg \in {"net", "dec", "fy"} \/ re_match(seg, <<Lit("fy"), Cls(Whitespace, 0, -1), Lit("rm")>>).ok

\* the label of the generic segment row of a segment text; "" for none
generic_label_of(seg) ==
  IF seg = "" \/ has_skip_word(seg) \/ is_unwanted_segment(seg) THEN ""
  ELSE "revenue-" \o str_title(spaced(seg, 1, Len(seg)))

generic_label(idx) ==
  IF ~str_contains(str_lower(str_strip(idx)), "revenue") THEN ""
  ELSE generic_label_of(segment_text(re_first(str_lower(str_strip(idx)), segment_patterns, 1)))

generic_labels(idxs) == [k \in 1..Len(idxs) |-> generic_label(idxs[k])]

extract_revenue_segments_generic(d) ==
  frame_of(d, classified_rows(d, seen_order(Labels(d)), generic_labels(seen_order(Labels(d))), 1))

\* 3) df_segment: dictionary rows, "other" rows, generic rows; of a table
\* without columns every selection is empty and none is added
segment_rows(d, name) ==
  IF Len(d.cols) = 0 THEN NoTable
  ELSE unique_index(frame_of(d,
         (IF name # "" /\ has_segments(name)
          THEN dictionary_rows(d, segments_of(name), 1)
                 \o revenue_rows_with(d, "other", "revenue-other")
          ELSE <<>>)
           \o extract_revenue_segments_generic(d).rows))

(***************************************************************************)
(* process_extracted_dfs                                                   *)
(***************************************************************************)
\* df_merged.index = df_merged.index.astype(str).str.strip().str.lower()
lower_index(d) ==
  [d EXCEPT !.rows = [i \in 1..Len(d.rows) |->
                        Row(str_lower(str_strip(d.rows[i].name)), d.rows[i].v)]]

\* re.sub(r"\s*\(\d+\)$", "", idx)
dedupe_base(m, idx) == IF m.ok THEN m.g[1] ELSE idx
revenue_base(idx) ==
  dedupe_base(re_match(idx, <<NotClsLazy("", 0, -1), Cls(Whitespace, 0, -1), Lit("("),
                              Cls(Digits, 1, -1), Lit(")")>>), idx)

\* 4.5) of the revenue- rows the first of every base, after the other rows
dedupe_revenue(t) ==
  LET other(r) == ~str_startswith(r.name, "revenue-")
      first(k) == /\ str_startswith(t.rows[k].name, "revenue-")
                  /\ \A j \in 1..(k - 1) : (str_startswith(t.rows[j].name, "revenue-")
                        => revenue_base(t.rows[j].name) # revenue_base(t.rows[k].name))
      idx == SelectSeq([k \in 1..Len(t.rows) |-> k], first)
  IN IF t.raised THEN Raised
     ELSE [t EXCEPT !.rows = SelectSeq(t.rows, other) \o [i \in 1..Len(idx) |-> t.rows[idx[i]]]]

\* index.str.contains(r"\(.*?\)")
has_parens(idx) == IndexIn("(", idx) > 0 /\ IndexFrom(")", idx, IndexIn("(", idx) + 1) > 0

\* step 5-1 left out
drop_paren_rows_KeepAll(t) == t

\* 5-1) the rows whose label holds no parenthetical
drop_paren_rows(t) ==
  LET keep(r) == ~has_parens(r.name) IN
  IF t.raised THEN Raised ELSE [t EXCEPT !.rows = SelectSeq(t.rows, keep)]

\* 6) the template, for a company name that is given
with_template(t, name) == IF name # "" THEN apply_amd_template_if_needed(t, name) ELSE t

\* idx.replace("revenue-", "").split(" ")[0]
first_word(s) == IF IndexIn(" ", s) > 0 THEN SubSeq(s, 1, IndexIn(" ", s) - 1) ELSE s

actual_segments(t) ==
  {first_word(str_replace(t.rows[i].name, "revenue-", "")) :
     i \in {j \in 1..Len(t.rows) : str_startswith(t.rows[j].name, "revenue-")}}

\* the segments of the dictionary that no row of the result names
missing_of(t, name) ==
  IF t.raised \/ name = "" \/ ~has_segments(name)
       \/ SeqSet(segments_of(name)) \ actual_segments(t) = {}
  THEN None
  ELSE Some(SeqSet(segments_of(name)) \ actual_segments(t))

\* steps 1) to 5-1) on the concatenated table
reconciled(d, name) ==
  drop_paren_rows(merge_duplicate_rows(dedupe_revenue(
    concat(<<index_map_rows(d), group_kw_rows(d), segment_rows(d, name)>>, 1))))

returned(t, name) == [result |-> t, errors |-> <<>>, missing_segments |-> missing_of(t, name)]

cleaned(dfs) == [k \in 1..Len(dfs) |-> clean_table(dfs[k])]

\* None for the table is the table without rows and columns, told apart by
\* the message in errors
process_cleaned(d, name) ==
  IF d.raised THEN [result |-> Raised, errors |-> <<>>, missing_segments |-> None]
  ELSE returned(with_template(reconciled(lower_index(d), name), name), name)

process_extracted_dfs(dfs, name) ==
  IF dfs = <<>>
  THEN [result |-> NoTable, errors |-> <<"no valid DataFrame">>, missing_segments |-> None]
  ELSE process_cleaned(concat(cleaned(dfs), 1), name)

(***************************************************************************)
(* Specification Spec: process_extracted_dfs applied to the tables of one  *)
(* document                                                                *)
(***************************************************************************)
MaxRows == 1

\* the header of every page table: a forecast year, an estimate year, and a
\* change column
DocCols == <<"2024F", "2025E", "Chg">>
DocRow(name, a, b) ==
  Row(name, [k \in SeqSet(DocCols) |-> IF k = "2024F" THEN a ELSE IF k = "2025E" THEN b ELSE Num(1)])
DocRowKinds ==
  {DocRow("FCF_Dec", Num(40), NA), DocRow("FCF", NA, Num(7)), DocRow("capex", Num(10), NA),
   DocRow("purchase of property", Num(20), NA), DocRow("DRAM revenue", Num(5), NA)}
DocTables == {Table(DocCols, rows) : rows \in UNION {[1..n -> DocRowKinds] : n \in 0..MaxRows}}
\* no table (for a company that has the template), one table, two tables
DocLists == {<<>>} \cup {<<t>> : t \in DocTables} \cup {<<t, u>> : t \in DocTables, u \in DocTables}
DocCompanies == {"", "AMD", "SK Hynix"}

Init == /\ pc = "document" /\ NoViz /\ NoJob /\ NoSummary
        /\ list_of_dfs \in DocLists
        /\ company_name \in DocCompanies
        /\ out = NoTable /\ errors = <<>> /\ missing_segments = None
        /\ df = NoTable
        /\ label = "" /\ norm = "" /\ renorm = ""

\* out, errors, missing_segments = process_extracted_dfs(list_of_dfs, company_name)
Reconcile ==
  /\ pc = "document"
  /\ \E r \in {process_extracted_dfs(list_of_dfs, company_name)} :
       /\ out' = r.result
       /\ errors' = r.errors
       /\ missing_segments' = r.missing_segments
  /\ pc' = "reconciled"
  /\ UNCHANGED <<label, norm, renorm, df, list_of_dfs, company_name, viz, job, summary>>

Next == Reconcile

Spec == Init /\ [][Next]_vars

(***************************************************************************)
(* Claims about process_extracted_dfs (checked under Spec)                 *)
(***************************************************************************)
\* C1: no two rows of the table process_extracted_dfs returns carry the same
\* label, whatever the tables and the company.
C1_UniqueLabels ==
  (pc = "reconciled" /\ ~out.raised) =>
    \A i, j \in 1..Len(out.rows) : i # j => out.rows[i].name # out.rows[j].name

\* table t has a row labelled name whose 2024F cell is v
HasRow2024F(t, name, v) == \E i \in 1..Len(t.rows) : t.rows[i].name = name /\ t.rows[i].v["2024F"] = v

\* one table has a row FCF_Dec with 2024F = 40, another a row FCF with 2024F
\* missing
FcfScenario ==
  \E i, j \in 1..Len(list_of_dfs) :
    /\ i # j
    /\ HasRow2024F(list_of_dfs[i], "FCF_Dec", Num(40))
    /\ HasRow2024F(list_of_dfs[j], "FCF", NA)

\* C10: when one table has a row FCF_Dec with 2024F = 40 and another table a
\* row FCF with 2024F missing, the result has exactly one row FCF, its 4Q2024F
\* cell is 40, and no row named FCF_Dec in any letter case.
C10_FcfEndToEnd ==
  (pc = "reconciled" /\ ~out.raised /\ FcfScenario) =>
    /\ row_count(out, "FCF") = 1
    /\ cell(row_of(out, "FCF"), "4Q2024F") = Num(40)
    /\ \A i \in 1..Len(out.rows) : str_lower(out.rows[i].name) # "fcf_dec"

C10_Witness ==
  /\ pc = "reconciled" /\ ~out.raised
  /\ company_name = ""
  /\ list_of_dfs = <<Table(DocCols, <<DocRow("FCF", NA, Num(7))>>),
                     Table(DocCols, <<DocRow("FCF_Dec", Num(40), NA)>>)>>
  /\ Labels(out) = <<"FCF">>
  /\ cell(out.rows[1], "4Q2024F") = Num(40)
  /\ cell(out.rows[1], "2025F") = Num(7)

(***************************************************************************)
(* Specification SpecCols: normalize_df_columns applied to a parsed table  *)
(* (line 1408) and again to its own result (line 886)                      *)
(***************************************************************************)
MaxCols == 2

\* a year, an estimate, a change column, a label with an inner space, a month
\* with a year of four digits, and a quarter
ColLabels == {"2024", "25E", "Chg", "Y R", "JAN/0025", "3Q25"}

Distinct(q) == \A i, j \in 1..Len(q) : i # j => q[i] # q[j]
ColSeqs == {q \in UNION {[1..n -> ColLabels] : n \in 0..MaxCols} : Distinct(q)}
ColRow(cols) == Row("Revenue", [c \in SeqSet(cols) |-> Num(1)])
ColTables == UNION {{Table(cols, <<>>), Table(cols, <<ColRow(cols)>>)} : cols \in ColSeqs}

InitCols == /\ pc = "table" /\ NoViz /\ NoJob /\ NoSummary
            /\ df \in ColTables
            /\ out = NoTable
            /\ label = "" /\ norm = "" /\ renorm = ""
            /\ list_of_dfs = <<>> /\ errors = <<>> /\ missing_segments = None
            /\ company_name = ""

\* out = normalize_df_columns(df)
NormalizeColumns ==
  /\ pc = "table"
  /\ out' = normalize_df_columns(df)
  /\ pc' = "normalized"
  /\ UNCHANGED <<label, norm, renorm, df, list_of_dfs, company_name, errors, missing_segments, viz, job, summary>>

\* out = normalize_df_columns(out)
RenormalizeColumns ==
  /\ pc = "normalized"
  /\ out' = normalize_df_columns(out)
  /\ pc' = "renormalized"
  /\ UNCHANGED <<label, norm, renorm, df, list_of_dfs, company_name, errors, missing_segments, viz, job, summary>>

NextCols == NormalizeColumns \/ RenormalizeColumns

SpecCols == InitCols /\ [][NextCols]_vars

(***************************************************************************)
(* Claims about normalize_df_columns (checked under SpecCols)              *)
(***************************************************************************)
\* the table d with its columns in the order p
Permuted(d, p) == [d EXCEPT !.cols = [k \in 1..Len(d.cols) |-> d.cols[p[k]]]]

Orders(n) == {p \in [1..n -> 1..n] : \A i, j \in 1..n : i # j => p[i] # p[j]}

\* the columns that survive do not depend on the order of the columns of df
OrderIndependent ==
  \A p \in Orders(Len(df.cols)) :
    ColSet(normalize_df_columns(Permuted(df, p))) = ColSet(normalize_df_columns(df))

\* C14: applying normalize_df_columns to its own output drops no further
\* column and leaves the column set unchanged, and the set of surviving
\* columns does not depend on the order of the input columns.
C14_FilterIdempotent ==
  [][(pc = "normalized" /\ pc' = "renormalized")
       => (ColSet(out') = ColSet(out) /\ OrderIndependent)]_vars

\* the second part of C14 alone
C14_OrderIndependentOnly == pc = "normalized" => OrderIndependent

(***************************************************************************)
(* The long form of a wide table                                           *)
(***************************************************************************)
\* ^([1-4])Q(\d{2,4})F?$ and ^(\d{2,4})F?$
period_patterns ==
  << <<Cls("1234", 1, 1), Lit("Q"), Cls(Digits, 2, 4), Cls("F", 0, 1)>>,
     <<Cls(Digits, 2, 4), Cls("F", 0, 1)>> >>

\* if len(y) == 2: y = "20" + y
period_year(y) == IF Len(y) = 2 THEN "20" \o y ELSE y

\* the period of the token x with the match m: a quarter always with F, a
\* year with F when x holds one
period_of(x, m) ==
  IF m.ok /\ m.v = 1 THEN m.g[1] \o "Q" \o period_year(m.g[3]) \o "F"
  ELSE IF m.ok THEN period_year(m.g[1]) \o (IF str_contains(x, "F") THEN "F" ELSE "")
  ELSE x

period_token_of(x) == period_of(x, re_first(x, period_patterns, 1))

normalize_period(x) == period_token_of(str_replace(str_upper(str_strip(x)), " ", ""))

\* re.sub(r"\s+", "", name).upper() matches \d{2,4}F? or [1-4]Q\d{2,4}F?
is_period_col(name) ==
  re_first(str_upper(str_replace(str_replace(name, " ", ""), "\t", "")), period_patterns, 1).ok

\* s with zeros in front, to the length p
RECURSIVE zero_padded(_, _)
zero_padded(s, p) == IF Len(s) >= p THEN s ELSE zero_padded("0" \o s, p)

\* str() of a float: sign, whole part, point, decimals
float_str(v) ==
  (IF v.n < 0 THEN "-" ELSE "") \o int_to_str(Abs(v.n) \div Pow10(v.p)) \o "."
    \o (IF v.p = 0 THEN "0" ELSE zero_padded(int_to_str(Abs(v.n) % Pow10(v.p)), v.p))

\* astype(str) of a cell
value_str(v) == IF isna(v) THEN "nan" ELSE IF v.t = "num" THEN float_str(v) ELSE v.s

\* ^[-]+$ replaced by "" (the dashes of the model are ASCII)
dashes_out(s) == IF s # "" /\ (\A i \in 1..Len(s) : CharAt(s, i) = "-") THEN "" ELSE s

\* clean_value that takes the decimal point for a separator as well
clean_value_DropPoint(s) ==
  str_strip(str_replace(str_replace(dashes_out(
    str_replace(str_replace(str_replace(s, ",", ""), ".", ""), "%", "")), "NaN", ""), "nan", ""))

\* the replacements of the value column, in their order, and strip
clean_value(s) ==
  str_strip(str_replace(str_replace(dashes_out(
    str_replace(str_replace(s, ",", ""), "%", "")), "NaN", ""), "nan", ""))

\* the decimal numbers pd.to_numeric reads: sign, digits, point and digits
number_patterns ==
  << <<Cls("+-", 0, 1), Cls(Digits, 1, -1), Lit("."), Cls(Digits, 1, -1)>>,
     <<Cls("+-", 0, 1), Cls(Digits, 1, -1)>> >>

signed(sg, v) == IF sg = "-" THEN [v EXCEPT !.n = -v.n] ELSE v

number_of(m) ==
  IF ~m.ok THEN NA
  ELSE IF m.v = 1 THEN signed(m.g[1], mk_num(str_to_int(m.g[2] \o m.g[4]), Len(m.g[4])))
  ELSE signed(m.g[1], Num(str_to_int(m.g[2])))

\* pd.to_numeric(s, errors="coerce") of a text; "" is missing
parse_number(s) == number_of(re_first(s, number_patterns, 1))

\* the value column of a cell of the wide table
long_value(v) == parse_number(clean_value(value_str(v)))

\* the column names after strip, a repeated name with the count of its
\* earlier occurrences
new_columns(cols) ==
  [k \in 1..Len(cols) |->
     IF \E j \in 1..(k - 1) : str_strip(cols[j]) = str_strip(cols[k])
     THEN str_strip(cols[k]) \o "_"
            \o int_to_str(Cardinality({j \in 1..(k - 1) : str_strip(cols[j]) = str_strip(cols[k])}))
     ELSE str_strip(cols[k])]

\* lower_map[cand] as the position of the column, 0 when cand is no key:
\* the last column of that lower-case name
lower_map(cols, cand) == LastOf({k \in 1..Len(cols) : str_lower(cols[k]) = cand})

\* the column of the first candidate from the i-th on that names a column
\* other than skip, 0 when there is none
RECURSIVE first_cand(_, _, _, _)
first_cand(cols, cands, i, skip) ==
  IF i > Len(cands) THEN 0
  ELSE IF lower_map(cols, cands[i]) \notin {0, skip} THEN lower_map(cols, cands[i])
  ELSE first_cand(cols, cands, i + 1, skip)

\* the candidates in ASCII; the Korean ones are left out of the model
company_cands == <<"company", "brand", "maker">>
segment_cands == <<"segment", "metric", "indicator">>
period_cands == <<"period">>
value_cands == <<"value", "amount">>

company_col(cols) == first_cand(cols, company_cands, 1, -1)

\* an explicit segment column, else the first column unless it is the
\* company's, else 0: the index of the table
segment_col(cols, company) ==
  IF first_cand(cols, segment_cands, 1, company) > 0
  THEN first_cand(cols, segment_cands, 1, company)
  ELSE IF company # 1 THEN 1 ELSE 0

\* the cell of row r in the column at position k; position 0 is the index
cell_at(d, r, k) == IF k = 0 THEN Str(r.name) ELSE r.v[d.cols[k]]

LongRow(company, segment, period, value) ==
  [company |-> company, segment |-> segment, period |-> period, value |-> value]

\* pd.to_numeric(errors="coerce") of a cell
value_number(v) == IF v.t = "str" THEN parse_number(str_strip(v.s)) ELSE v

\* the table that is long already: its rows with the four columns renamed
long_as_is(d, company, segment, period, value) ==
  [i \in 1..Len(d.rows) |->
     LongRow(cell_at(d, d.rows[i], company), cell_at(d, d.rows[i], segment),
             normalize_period(value_str(cell_at(d, d.rows[i], period))),
             value_number(cell_at(d, d.rows[i], value)))]

\* the columns of periods in the order of the table
period_cols(cols, company, segment) ==
  SelectSeq([k \in 1..Len(cols) |-> k],
            LAMBDA k : k # company /\ k # segment /\ is_period_col(cols[k]))

\* melt: the period columns one after the other, each with all rows
melt(d, cols, company, segment, pcs) ==
  [t \in 1..(Len(pcs) * Len(d.rows)) |->
     LongRow(cell_at(d, d.rows[((t - 1) % Len(d.rows)) + 1], company),
             cell_at(d, d.rows[((t - 1) % Len(d.rows)) + 1], segment),
             normalize_period(cols[pcs[((t - 1) \div Len(d.rows)) + 1]]),
             long_value(cell_at(d, d.rows[((t - 1) % Len(d.rows)) + 1],
                                pcs[((t - 1) \div Len(d.rows)) + 1])))]

\* dropna(subset=["company", "segment"]) and the two filters on blank text
long_kept(r) ==
  /\ ~isna(r.company) /\ ~isna(r.segment)
  /\ str_strip(value_str(r.segment)) # ""
  /\ str_strip(value_str(r.company)) # ""

tidy_wide(d, cols, company, segment) ==
  IF Len(period_cols(cols, company, segment)) = 0 THEN <<>>
  ELSE SelectSeq(melt(d, cols, company, segment, period_cols(cols, company, segment)), long_kept)

tidy_cols(d, cols, company, segment) ==
  IF company = 0 THEN <<>>
  ELSE IF /\ lower_map(cols, "period") > 0 \/ lower_map(cols, "value") > 0
          /\ first_cand(cols, period_cands, 1, -1) > 0
          /\ first_cand(cols, value_cands, 1, -1) > 0
  THEN long_as_is(d, company, segment, first_cand(cols, period_cands, 1, -1),
                  first_cand(cols, value_cands, 1, -1))
  ELSE tidy_wide(d, cols, company, segment)

tidy_named(d, cols) == tidy_cols(d, cols, company_col(cols), segment_col(cols, company_col(cols)))

\* the rows (company, segment, period, value) of a table
tidy_long(d) == IF df_empty(d) THEN <<>> ELSE tidy_named(d, new_columns(d.cols))

(***************************************************************************)
(* Specification SpecLong: a wide table with a Company column, a Segment   *)
(* column and columns of canonical periods is brought into the long form   *)
(***************************************************************************)
MaxLongRows == 1

\* two years, a year and a quarter, a quarter and its forecast, a forecast
\* quarter and a forecast year
LongCols ==
  {<<"Company", "Segment", "2024", "2025F">>, <<"Company", "Segment", "2024", "1Q2025">>,
   <<"Company", "Segment", "1Q2025", "1Q2025F">>, <<"Company", "Segment", "1Q2025F", "2025F">>}

\* a company and a blank one, two segments, and cells that are missing,
\* whole, negative and with decimals
LongCompanies == {"AMD", " "}
LongSegments == {"Revenue", "OP"}
LongFirst == {NA, Num(5)}
LongSecond == {NA, Dec(15, 1), Num(-3)}

LongRows(cols) ==
  {Row("0", (cols[1] :> Str(c)) @@ (cols[2] :> Str(g)) @@ (cols[3] :> a) @@ (cols[4] :> b)) :
     c \in LongCompanies, g \in LongSegments, a \in LongFirst, b \in LongSecond}

LongTables ==
  UNION {{Table(cols, rows) : rows \in UNION {[1..n -> LongRows(cols)] : n \in 0..MaxLongRows}} :
           cols \in LongCols}

InitLong == /\ pc = "wide" /\ NoJob /\ NoSummary
            /\ df \in LongTables
            /\ long = <<>>
            /\ out = NoTable
            /\ label = "" /\ norm = "" /\ renorm = ""
            /\ list_of_dfs = <<>> /\ errors = <<>> /\ missing_segments = None
            /\ company_name = ""

\* long = tidy_long(df)
Tidy ==
  /\ pc = "wide"
  /\ long' = tidy_long(df)
  /\ pc' = "long"
  /\ UNCHANGED <<label, norm, renorm, df, out, list_of_dfs, company_name, errors, missing_segments, job, summary>>

NextLong == Tidy

SpecLong == InitLong /\ [][NextLong]_vars

\* the period columns of the wide table
WidePeriods == SeqSet(df.cols) \ {"Company", "Segment"}

\* row i of the wide table has a company and a segment, and no other row has
\* the same two
Keyed(i) ==
  /\ str_strip(df.rows[i].v["Company"].s) # ""
  /\ str_strip(df.rows[i].v["Segment"].s) # ""
  /\ \A j \in 1..Len(df.rows) :
       (j # i) => (df.rows[j].v["Company"] # df.rows[i].v["Company"]
                     \/ df.rows[j].v["Segment"] # df.rows[i].v["Segment"])

\* the values the long form holds for row i of the wide table at period p:
\* what a pivot on (company, segment, period) aggregates into the cell
PivotCell(i, p) ==
  {long[k].value : k \in {k \in 1..Len(long) :
      /\ long[k].company = df.rows[i].v["Company"]
      /\ long[k].segment = df.rows[i].v["Segment"]
      /\ long[k].period = p}}

IsQuarterLabel(c) == Len(c) >= 2 /\ CharAt(c, 2) = "Q"
LongLabel(c) == IF IsQuarterLabel(c) /\ ~str_endswith(c, "F") THEN c \o "F" ELSE c

RECURSIVE str_split(_, _, _)
str_split(s, sep, i) ==
  IF str_find(s, sep, i) = 0 THEN <<str_from(s, IF i > Len(s) THEN 0 ELSE i)>>
  ELSE <<SubSeq(s, i, str_find(s, sep, i) - 1)>> \o str_split(s, sep, str_find(s, sep, i) + Len(sep))

AlNum == LowerAlpha \o UpperAlpha \o Digits

\* the fence of three backquotes; a string of the model cannot hold a
\* backquote, a tilde stands for it
Fence == "~~~"

\* re.sub of an opening fence: the fence, letters or digits, newline
fence_open(s) ==
  IF ~str_startswith(s, Fence) THEN s
  ELSE IF FirstOf({i \in 4..Len(s) : IndexIn(CharAt(s, i), AlNum) = 0}) = 0 THEN s
  ELSE IF CharAt(s, FirstOf({i \in 4..Len(s) : IndexIn(CharAt(s, i), AlNum) = 0})) = "\n"
  THEN str_from(s, IF FirstOf({i \in 4..Len(s) : IndexIn(CharAt(s, i), AlNum) = 0}) = Len(s) THEN 0
                   ELSE FirstOf({i \in 4..Len(s) : IndexIn(CharAt(s, i), AlNum) = 0}) + 1)
  ELSE s

\* re.sub of a closing fence: newline and the fence at the end
fence_close(s) == IF str_endswith(s, "\n" \o Fence) THEN SubSeq(s, 1, Len(s) - 4) ELSE s

strip_code_fences(s) == str_strip(fence_close(fence_open(str_strip(s))))

\* [t.strip() for t in parts if t.strip()]
stripped_parts(parts) ==
  SelectSeq([k \in 1..Len(parts) |-> str_strip(parts[k])], LAMBDA t : t # "")

split_multiple_tables(text) ==
  IF str_contains(text, "\n\n") THEN stripped_parts(str_split(text, "\n\n", 1))
  ELSE IF str_contains(text, "---") THEN stripped_parts(str_split(text, "---", 1))
  ELSE <<str_strip(text)>>

\* the fields of the lines of a text, blank lines skipped
csv_fields(text) ==
  [k \in 1..Len(SelectSeq(str_split(text, "\n", 1), LAMBDA l : l # "")) |->
     str_split(SelectSeq(str_split(text, "\n", 1), LAMBDA l : l # "")[k], ";", 1)]

\* no line at all, or a line after the first data line with more fields than
\* the line before it
csv_error(f) ==
  IF Len(f) = 0 THEN "EmptyDataError"
  ELSE IF \E k \in 3..Len(f) : Len(f[k]) > Len(f[k - 1]) THEN "ParserError"
  ELSE ""

\* the texts read_csv takes for a missing value
NA_VALUES ==
  {"", "#N/A", "#N/A N/A", "#NA", "-1.#IND", "-1.#QNAN", "-NaN", "-nan", "1.#IND", "1.#QNAN",
   "<NA>", "N/A", "NA", "NULL", "NaN", "None", "n/a", "nan", "null"}

csv_field(f, k, j) == IF j <= Len(f[k]) THEN f[k][j] ELSE ""

\* a column is numeric when each of its values is missing or a number
csv_numeric(f, j) ==
  \A k \in 2..Len(f) : csv_field(f, k, j) \in NA_VALUES \/ parse_number(csv_field(f, k, j)) # NA

csv_cell(f, k, j) ==
  IF csv_field(f, k, j) \in NA_VALUES THEN NA
  ELSE IF csv_numeric(f, j) THEN parse_number(csv_field(f, k, j))
  ELSE Str(csv_field(f, k, j))

\* the header without its first field, a repeated name with .n
csv_columns(h) ==
  [j \in 1..(Len(h) - 1) |->
     IF \E i \in 2..j : h[i] = h[j + 1]
     THEN h[j + 1] \o "." \o int_to_str(Cardinality({i \in 2..j : h[i] = h[j + 1]}))
     ELSE h[j + 1]]

\* index_col=0: the first field of a line is the label of its row
csv_table(f, cols) ==
  Table(cols, [k \in 1..(Len(f) - 1) |->
                 Row(f[k + 1][1], [c \in SeqSet(cols) |->
                                     csv_cell(f, k + 1, 1 + CHOOSE j \in 1..Len(cols) : cols[j] = c)])])

csv_read(f) ==
  IF csv_error(f) # "" THEN [e |-> csv_error(f), table |-> NoTable]
  ELSE [e |-> "", table |-> csv_table(f, csv_columns(f[1]))]

\* pd.read_csv(io.StringIO(text), sep=";", index_col=0)
read_csv(text) == csv_read(csv_fields(text))

\* the try block of a table text: the cleaned table, or the exception
checked_table(t) ==
  IF t.raised THEN [e |-> "Exception", table |-> NoTable] ELSE [e |-> "", table |-> t]

parsed_table(r) ==
  IF r.e # "" THEN r
  ELSE IF df_empty(r.table) THEN [e |-> "ValueError", table |-> NoTable]
  ELSE checked_table(clean_table(r.table))

parse_table(table_text) == parsed_table(read_csv(table_text))

(***************************************************************************)
(* The run over the uploaded documents                                     *)
(***************************************************************************)
\* the first key of company_segments, in lower case, that the file name in
\* lower case contains, "" when there is none
RECURSIVE predefined_company(_, _)
predefined_company(file_name_lower, k) ==
  IF k > Len(company_segments) THEN ""
  ELSE IF str_contains(file_name_lower, str_lower(company_segments[k][1]))
  THEN str_lower(company_segments[k][1])
  ELSE predefined_company(file_name_lower, k + 1)

\* {c.lower(): c for c in company_segments.keys()}: the last key wins
company_name_map(c_lower) ==
  company_segments[LastOf({k \in 1..Len(company_segments) :
                             str_lower(company_segments[k][1]) = c_lower})][1]

\* re.sub(r"\.pdf$", "", file_name, flags=re.IGNORECASE).strip()
without_pdf(file_name) ==
  str_strip(IF str_endswith(str_lower(file_name), ".pdf")
            THEN SubSeq(file_name, 1, Len(file_name) - 4) ELSE file_name)

company_of(file_name) ==
  IF predefined_company(str_lower(file_name), 1) # ""
  THEN company_name_map(predefined_company(str_lower(file_name), 1))
  ELSE IF str_contains(str_lower(file_name), "amd")
            \/ str_contains(str_lower(file_name), "advanced micro devices")
  THEN "AMD"
  ELSE without_pdf(file_name)

\* re.sub of the runs of the characters of class it in s[i..j] by "_"
RECURSIVE runs_sub(_, _, _, _)
runs_sub(s, it, i, j) ==
  IF i > j THEN ""
  ELSE IF i = j
  THEN (IF ~InCls(CharAt(s, i), it) THEN CharAt(s, i)
        ELSE IF i > 1 /\ InCls(CharAt(s, i - 1), it) THEN "" ELSE "_")
  ELSE runs_sub(s, it, i, (i + j) \div 2) \o runs_sub(s, it, (i + j) \div 2 + 1, j)

\* [A-Za-z0-9_.-]; the Korean syllables of the class are not in the model
SafeChars == AlNum \o "_.-"

safe_underscored(s) == runs_sub(s, Cls(Whitespace, 1, -1), 1, Len(s))

safe_filename(name) ==
  runs_sub(safe_underscored(str_strip(name)), NotCls(SafeChars, 1, -1), 1,
           Len(safe_underscored(str_strip(name))))

\* table_text[:4000]
RAW_LIMIT == 4000

\* the raw text without the cut
raw_text_Whole(table_text) == table_text

raw_text(table_text) ==
  SubSeq(table_text, 1, IF Len(table_text) < RAW_LIMIT THEN Len(table_text) ELSE RAW_LIMIT)

\* a diagnostic: the parts of its text in their order.  kind "error" is the
\* message of a failed extraction call, "parse" that of a table text that
\* could not be read, "message" one of process_extracted_dfs
Diag(file, page, kind, table, e, text) ==
  [file |-> file, page |-> page, kind |-> kind, table |-> table, e |-> e, text |-> text]

\* the body of the loop over table_texts, r the outcome of the try block
page_table(acc, file_name, company_safe, page_no, t_idx, table_text, r) ==
  IF r.e = ""
  THEN [acc EXCEPT !.dfs = Append(@, r.table),
                   !.csv = Append(@, <<company_safe, page_no, t_idx>>)]
  ELSE [acc EXCEPT !.errors = Append(@, Diag(file_name, page_no, "parse", t_idx, r.e,
                                             raw_text(table_text)))]

RECURSIVE page_tables(_, _, _, _, _, _)
page_tables(acc, file_name, company_safe, page_no, table_texts, t_idx) ==
  IF t_idx > Len(table_texts) THEN acc
  ELSE page_tables(page_table(acc, file_name, company_safe, page_no, t_idx, table_texts[t_idx],
                              parse_table(table_texts[t_idx])),
                   file_name, company_safe, page_no, table_texts, t_idx + 1)

\* the body of the loop over results, output the stripped text of the page
page_result(acc, file_name, company_safe, page_no, output) ==
  IF str_upper(output) = "NONE" THEN acc
  ELSE IF str_startswith(output, "ERROR")
  THEN [acc EXCEPT !.errors = Append(@, Diag(file_name, page_no, "error", 0, "", output))]
  ELSE page_tables(acc, file_name, company_safe, page_no,
                   split_multiple_tables(strip_code_fences(output)), 1)

\* the results as the tasks ended
sorted_results_AsCompleted(rs) == rs

\* results.sort(key=lambda x: x[0])
sorted_results(rs) ==
  [k \in 1..Len(rs) |->
     CHOOSE r \in SeqSet(rs) : Cardinality({q \in SeqSet(rs) : q[1] < r[1]}) = k - 1]

\* result_df_single.insert(0, "Company", company_name)
with_company(t, name) ==
  Table(<<"Company">> \o t.cols,
        [i \in 1..Len(t.rows) |-> Row(t.rows[i].name, t.rows[i].v @@ ("Company" :> Str(name)))])

\* all_errors.extend(errors_single)
messages(es) == [k \in 1..Len(es) |-> Diag("", 0, "message", 0, "", es[k])]

\* all_missing_segments[company_name] = missing_segments_single
put_missing(d, name, m) ==
  IF m.none \/ m.items = {} THEN d ELSE {p \in d : p[1] # name} \cup {<<name, m.items>>}

\* the run stops as well when process_extracted_dfs returns a message
reconcile_raises_OnMessage(r) == r.result.raised \/ r.errors # <<>>

\* the run stops on an exception of process_extracted_dfs or of insert
reconcile_raises(r) == r.result.raised \/ (~df_empty(r.result) /\ "Company" \in ColSet(r.result))

(***************************************************************************)
(* Specification SpecRun: the loop over the uploaded documents.  The pages *)
(* of a document are extracted by tasks that end in any order; their       *)
(* returns are then gone through page by page, and the tables of the       *)
(* document are reconciled                                                 *)
(***************************************************************************)
MaxDocs == 2
MaxPages == 2

\* str * n
RECURSIVE str_times(_, _)
str_times(s, n) ==
  IF n = 0 THEN ""
  ELSE IF n % 2 = 1 THEN s \o str_times(s, n - 1)
  ELSE str_times(s \o s, n \div 2)

\* what extract_tables_with_gpt returns for a page: no table, a failed
\* call, a table, and a table text without rows before a table
GoodText == "index;2024F\nRevenue;10"
BadThenGoodText == "index;2024F\n\nindex;2024F\nFCF;7"
PageOutputs == {"NONE", "ERROR: timeout", GoodText, BadThenGoodText}

\* a table whose only row is no metric, no keyword group and no segment
UnclassifiedText == "index;2024F\nheadcount;3"

\* a header longer than the limit of the raw text in a diagnostic
LongText == "index;" \o str_times("x", RAW_LIMIT + 1)

Doc(name, outputs) == [name |-> name, outputs |-> outputs]

\* the k-th document of an upload, with one page that holds a table
PlainDoc(k) == Doc("b" \o int_to_str(k) \o ".pdf", <<GoodText>>)

\* the documents of up to MaxPages pages; documents of the company with the
\* template, with a failed page, with a table, and with a table that has no
\* row to classify; documents with the long text
AnyDocs ==
  {Doc("a.pdf", outputs) : outputs \in UNION {[1..n -> PageOutputs] : n \in 0..MaxPages}}
    \cup {Doc("amd q1.pdf", <<"ERROR: timeout">>), Doc("amd q1.pdf", <<GoodText>>),
          Doc("amd q1.pdf", <<UnclassifiedText>>),
          Doc("amd q1.pdf", <<"ERROR: timeout", UnclassifiedText>>),
          Doc("a.pdf", <<LongText>>), Doc("a.pdf", <<LongText, GoodText>>)}

\* the uploads of MaxDocs documents: plain ones around one of AnyDocs
Uploads ==
  {[k \in 1..MaxDocs |-> IF k = at THEN d ELSE PlainDoc(k)] : at \in 1..MaxDocs, d \in AnyDocs}

InitRun == /\ pc = "files" /\ NoViz /\ NoSummary
           /\ uploaded_pdf_files \in Uploads
           /\ file_idx = 0 /\ futures = {} /\ results = <<>> /\ result_idx = 0
           /\ file_extracted_dfs = <<>> /\ all_errors = <<>> /\ all_processed_dfs = <<>>
           /\ all_csv_files = <<>> /\ all_missing_segments = {}
           /\ company_name = ""
           /\ df = NoTable /\ out = NoTable
           /\ label = "" /\ norm = "" /\ renorm = ""
           /\ list_of_dfs = <<>> /\ errors = <<>> /\ missing_segments = None

\* the locals of the other functions
idle == <<label, norm, renorm, df, out, list_of_dfs, errors, missing_segments, viz, summary>>

\* the head of the loop over the files up to executor.submit of every page
StartDocument ==
  /\ pc = "files"
  /\ file_idx < Len(uploaded_pdf_files)
  /\ file_idx' = file_idx + 1
  /\ company_name' = company_of(uploaded_pdf_files[file_idx + 1].name)
  /\ results' = <<>>
  /\ futures' = 0..(Len(uploaded_pdf_files[file_idx + 1].outputs) - 1)
  /\ pc' = "extracting"
  /\ UNCHANGED <<uploaded_pdf_files, result_idx, file_extracted_dfs, all_errors,
                 all_processed_dfs, all_csv_files, all_missing_segments, idle>>

\* as_completed yields the task of page i: results.append((i, output))
Complete(i) ==
  /\ pc = "extracting"
  /\ i \in futures
  /\ results' = Append(results, <<i, uploaded_pdf_files[file_idx].outputs[i + 1]>>)
  /\ futures' = futures \ {i}
  /\ UNCHANGED <<pc, uploaded_pdf_files, file_idx, company_name, result_idx, file_extracted_dfs,
                 all_errors, all_processed_dfs, all_csv_files, all_missing_segments, idle>>

\* the executor is left when every task has ended: results.sort
SortResults ==
  /\ pc = "extracting"
  /\ futures = {}
  /\ results' = sorted_results(results)
  /\ file_extracted_dfs' = <<>>
  /\ result_idx' = 0
  /\ pc' = "pages"
  /\ UNCHANGED <<uploaded_pdf_files, file_idx, company_name, futures,
                 all_errors, all_processed_dfs, all_csv_files, all_missing_segments, idle>>

\* one turn of the loop over results
ParsePage ==
  /\ pc = "pages"
  /\ result_idx < Len(results)
  /\ \E acc \in {page_result([dfs |-> file_extracted_dfs, errors |-> all_errors, csv |-> all_csv_files],
                             uploaded_pdf_files[file_idx].name, safe_filename(company_name),
                             results[result_idx + 1][1] + 1,
                             str_strip(results[result_idx + 1][2]))} :
       /\ file_extracted_dfs' = acc.dfs
       /\ all_errors' = acc.errors
       /\ all_csv_files' = acc.csv
  /\ result_idx' = result_idx + 1
  /\ UNCHANGED <<pc, uploaded_pdf_files, file_idx, company_name, futures, results,
                 all_processed_dfs, all_missing_segments, idle>>

\* after the loop over results: process_extracted_dfs and what is kept of
\* its return
ReconcileDocument ==
  /\ pc = "pages"
  /\ result_idx = Len(results)
  /\ IF file_extracted_dfs # <<>> \/ is_amd_company(company_name)
     THEN \E r \in {process_extracted_dfs(file_extracted_dfs, company_name)} :
            /\ pc' = IF reconcile_raises(r) THEN "aborted" ELSE "files"
            /\ all_errors' = IF r.result.raised THEN all_errors ELSE all_errors \o messages(r.errors)
            /\ all_processed_dfs' =
                 IF reconcile_raises(r) \/ df_empty(r.result) THEN all_processed_dfs
                 ELSE Append(all_processed_dfs, with_company(r.result, company_name))
            /\ all_missing_segments' =
                 IF reconcile_raises(r) THEN all_missing_segments
                 ELSE put_missing(all_missing_segments, company_name, r.missing_segments)
     ELSE /\ pc' = "files"
          /\ UNCHANGED <<all_errors, all_processed_dfs, all_missing_segments>>
  /\ UNCHANGED <<uploaded_pdf_files, file_idx, company_name, futures, results, result_idx,
                 file_extracted_dfs, all_csv_files, idle>>

\* the loop over the files is left
Finish ==
  /\ pc = "files"
  /\ file_idx = Len(uploaded_pdf_files)
  /\ pc' = "done"
  /\ UNCHANGED <<company_name, job, idle>>

NextRun ==
  \/ StartDocument
  \/ \E i \in 0..MaxPages : Complete(i)
  \/ SortResults
  \/ ParsePage
  \/ ReconcileDocument
  \/ Finish

SpecRun == InitRun /\ [][NextRun]_vars

\* the control of the steps of NextRun: what each of them needs and the
\* position, counter or set of tasks it moves
AdvanceFile == pc = "files" /\ file_idx < Len(uploaded_pdf_files) /\ file_idx' = file_idx + 1
AdvanceTask == pc = "extracting" /\ \E i \in futures : futures' = futures \ {i}
AdvancePage == pc = "pages" /\ result_idx < Len(results) /\ result_idx' = result_idx + 1
AdvancePc ==
  \/ pc = "files" /\ file_idx = Len(uploaded_pdf_files) /\ pc' = "done"
  \/ pc = "extracting" /\ futures = {} /\ pc' = "pages"
  \/ pc = "pages" /\ result_idx = Len(results) /\ \E p \in {"files", "aborted"} : pc' = p

\* every task ends, and the loops go on: a step that is possible is taken
SpecRunFair ==
  /\ SpecRun
  /\ WF_file_idx(AdvanceFile) /\ WF_futures(AdvanceTask)
  /\ WF_result_idx(AdvancePage) /\ WF_pc(AdvancePc)

\* the document at work and the outputs of its pages
ThisDoc == uploaded_pdf_files[file_idx]

\* what a step has appended to a list
Appended(old, new) == SubSeq(new, Len(old) + 1, Len(new))

\* the step is a turn of the loop over results
PageTurn == result_idx' = result_idx + 1

\* C16: whatever the order in which the page tasks of a document end, no
\* output is gone through before every task of the document has ended; the
\* outputs are gone through in ascending page index, each page once with
\* its own output, the tables and diagnostics of a turn are those of its
\* page, and the document is reconciled only after its last page
C16_PageOrderRestored ==
  [][/\ PageTurn =>
          /\ futures = {}
          /\ Len(results) = Len(ThisDoc.outputs)
          /\ results[result_idx'] = <<result_idx, ThisDoc.outputs[result_idx']>>
          /\ \A k \in 1..Len(Appended(all_errors, all_errors')) :
                Appended(all_errors, all_errors')[k].page = result_idx'
          /\ \A k \in 1..Len(Appended(all_csv_files, all_csv_files')) :
                Appended(all_csv_files, all_csv_files')[k][2] = result_idx'
          /\ Len(file_extracted_dfs') - Len(file_extracted_dfs)
               = Len(Appended(all_csv_files, all_csv_files'))
     /\ (pc = "pages" /\ pc' = "files") => result_idx = Len(ThisDoc.outputs)
     /\ (~PageTurn /\ pc' = "pages") => (file_extracted_dfs' = <<>> /\ result_idx' = 0)]_vars

\* the two pages of a document gone through: the diagnostic of page 1 before
\* the table of page 2
C16_Witness ==
  /\ pc = "pages" /\ result_idx = 2
  /\ ThisDoc.outputs = <<"ERROR: timeout", GoodText>>
  /\ Len(all_errors) = 1 /\ all_errors[1].page = 1
  /\ Len(file_extracted_dfs) = 1
  /\ all_csv_files[Len(all_csv_files)][2] = 2

\* the outputs of the model by what they hold: a table text that reads as a
\* table, a failed call, a table text that does not read as a table
HoldsTable(output) == output \in {GoodText, BadThenGoodText, UnclassifiedText}
FailedCall(output) == str_startswith(output, "ERROR")
FailedParse(output) == output \in {BadThenGoodText, LongText}

\* the uploaded documents with a table, in upload order
Producing ==
  SelectSeq(uploaded_pdf_files, LAMBDA d : \E p \in 1..Len(d.outputs) : HoldsTable(d.outputs[p]))

\* the number of diagnostics of a kind for a page of a file
DiagCount(file, page, kind) ==
  Cardinality({k \in 1..Len(all_errors) :
     all_errors[k].file = file /\ all_errors[k].page = page /\ all_errors[k].kind = kind})

\* every document has been gone through; the results are those of the
\* documents with a table, in upload order, each under its company; every
\* failed page has left its diagnostic
Integrated ==
  /\ file_idx = Len(uploaded_pdf_files)
  /\ Len(all_processed_dfs) = Len(Producing)
  /\ \A k \in 1..Len(all_processed_dfs) :
       /\ ~df_empty(all_processed_dfs[k])
       /\ \A i \in 1..Len(all_processed_dfs[k].rows) :
            all_processed_dfs[k].rows[i].v["Company"] = Str(company_of(Producing[k].name))
  /\ \A d \in 1..Len(uploaded_pdf_files) : \A p \in 1..Len(uploaded_pdf_files[d].outputs) :
       /\ DiagCount(uploaded_pdf_files[d].name, p, "error")
            = IF FailedCall(uploaded_pdf_files[d].outputs[p]) THEN 1 ELSE 0
       /\ DiagCount(uploaded_pdf_files[d].name, p, "parse")
            = IF FailedParse(uploaded_pdf_files[d].outputs[p]) THEN 1 ELSE 0

\* C17: a failed extraction call or a table text that cannot be read, on any
\* page of any document, never stops the run: the run ends, every later
\* document has been extracted and reconciled in upload order, and at the
\* end the results are those of the documents that gave tables, next to the
\* diagnostics collected on the way
C17_FailureIsolated ==
  /\ [](pc # "aborted")
  /\ <>(pc = "done")
  /\ [](pc = "done" => Integrated)

\* the run has ended: the only page of the first document failed, the second
\* document gave its result
C17_Witness ==
  /\ pc = "done"
  /\ Len(uploaded_pdf_files) >= 2
  /\ uploaded_pdf_files[1].outputs = <<"ERROR: timeout">>
  /\ DiagCount(uploaded_pdf_files[1].name, 1, "error") = 1
  /\ Len(all_processed_dfs) = Len(uploaded_pdf_files) - 1
  /\ all_processed_dfs[1].rows[1].v["Company"] = Str("b2")

\* the tables and the diagnostics of a turn of the loop over results
NewTables == Len(file_extracted_dfs') - Len(file_extracted_dfs)
NewDiags == Appended(all_errors, all_errors')
OneDiag(kind) ==
  /\ Len(NewDiags) = 1
  /\ NewDiags[1].kind = kind
  /\ NewDiags[1].file = ThisDoc.name
  /\ NewDiags[1].page = result_idx'

\* C18: a page whose output is NONE gives no table and no diagnostic; a page
\* whose output begins with ERROR gives no table and one diagnostic with the
\* file and the page; a table text that cannot be read, or reads as an empty
\* table, gives no table and one diagnostic with the raw text cut to 4000
\* characters, and the tables after it on the page and the pages after it
\* are still gone through
C18_FailureAccounting ==
  [][PageTurn =>
       /\ (ThisDoc.outputs[result_idx'] = "NONE") => (NewTables = 0 /\ NewDiags = <<>>)
       /\ FailedCall(ThisDoc.outputs[result_idx']) => (NewTables = 0 /\ OneDiag("error"))
       /\ (ThisDoc.outputs[result_idx'] = LongText) =>
            /\ NewTables = 0 /\ OneDiag("parse")
            /\ Len(NewDiags[1].text) = 4000
            /\ NewDiags[1].text = SubSeq(LongText, 1, 4000)
       /\ (ThisDoc.outputs[result_idx'] = BadThenGoodText) =>
            /\ NewTables = 1 /\ OneDiag("parse")
            /\ NewDiags[1].text = "index;2024F"
            /\ NewDiags[1].table = 1
       /\ (ThisDoc.outputs[result_idx'] = GoodText) => (NewTables = 1 /\ NewDiags = <<>>)
       /\ all_errors = SubSeq(all_errors', 1, Len(all_errors))
       /\ file_extracted_dfs = SubSeq(file_extracted_dfs', 1, Len(file_extracted_dfs))]_vars

\* the long text on page 1 has left its cut diagnostic, and the table of
\* page 2 has been taken
C18_Witness ==
  /\ pc = "pages" /\ result_idx = 2
  /\ ThisDoc.outputs = <<LongText, GoodText>>
  /\ Len(all_errors) = 1
  /\ all_errors[1].kind = "parse" /\ all_errors[1].page = 1
  /\ Len(all_errors[1].text) = 4000
  /\ Len(file_extracted_dfs) = 1

\* the document is of the company with the template and its tables hold
\* no row to classify
EmptyReconciled(d) ==
  /\ is_amd_company(company_of(d.name))
  /\ \E p \in 1..Len(d.outputs) : d.outputs[p] = UnclassifiedText
  /\ \A p \in 1..Len(d.outputs) : d.outputs[p] \in {UnclassifiedText, "NONE", "ERROR: timeout"}

\* the same run without a document of that kind
C17_PageFailuresOnly ==
  (\A k \in 1..Len(uploaded_pdf_files) : ~EmptyReconciled(uploaded_pdf_files[k]))
    => C17_FailureIsolated

\* the dataset is the template under the company
IsTemplateOf(t, name) ==
  /\ Labels(t) = Labels(create_amd_template_df)
  /\ \A i \in 1..Len(t.rows) : cell(t.rows[i], "Company") \in {Str(name), Str("AMD")}

\* C26: for a document of the company with the template whose tables hold
\* no row to classify, process_extracted_dfs and the tagging with the
\* company end without an exception, the document gives the template as its
\* dataset, and the documents after it are gone through: the run is never
\* stopped, and at its end every document has been gone through and the
\* template is among the results
C26_EmptyReconciliationCompletes ==
  /\ pc # "aborted"
  /\ pc = "done" =>
       /\ file_idx = Len(uploaded_pdf_files)
       /\ \A k \in 1..Len(uploaded_pdf_files) :
            EmptyReconciled(uploaded_pdf_files[k])
              => \E j \in 1..Len(all_processed_dfs) :
                   IsTemplateOf(all_processed_dfs[j], company_of(uploaded_pdf_files[k].name))

\* the same for the runs without a document of that kind
C26_OtherDocumentsOnly ==
  (\E k \in 1..Len(uploaded_pdf_files) : EmptyReconciled(uploaded_pdf_files[k]))
    \/ C26_EmptyReconciliationCompletes

(***************************************************************************)
(* Specification SpecSegments: process_extracted_dfs applied to one table  *)
(* of revenue rows, for companies with and without a list of segments      *)
(***************************************************************************)
MaxSegmentRows == 2

\* segments of SK Hynix and of AMD, one of them of two words, and rows that
\* qualify a revenue: a growth of a segment of SK Hynix, and a mix.  The
\* value of a row tells its label
SegmentRowKinds ==
  {DocRow("DRAM revenue", Num(5), NA), DocRow("NAND revenue", Num(6), NA),
   DocRow("Data Center revenue", Num(7), NA), DocRow("Gaming revenue", Num(4), NA),
   DocRow("DRAM revenue growth", Num(9), NA), DocRow("revenue_asp mix", Num(8), NA)}

SegmentTables ==
  {Table(DocCols, rows) : rows \in UNION {[1..n -> SegmentRowKinds] : n \in 0..MaxSegmentRows}}

\* no company, a company without a list, two companies with one
SegmentCompanies == {"", "x", "SK Hynix", "AMD"}

InitSegments == /\ pc = "document" /\ NoViz /\ NoJob /\ NoSummary
                /\ list_of_dfs \in {<<t>> : t \in SegmentTables}
                /\ company_name \in SegmentCompanies
                /\ out = NoTable /\ errors = <<>> /\ missing_segments = None
                /\ df = NoTable
                /\ label = "" /\ norm = "" /\ renorm = ""

SpecSegments == InitSegments /\ [][Next]_vars

\* the label names a revenue together with a qualifier
Qualifies(name) ==
  /\ str_contains(str_lower(name), "revenue")
  /\ \E w \in {"growth", "margin", "qoq", "yoy", "mix", "asp", "price", "chg", "change"} :
       str_contains(str_lower(name), w)

\* the rows of the input table
InputRows == SeqSet(list_of_dfs[1].rows)

\* C19: whatever the company, no row revenue-<Segment> of the result of
\* process_extracted_dfs carries the values of an input row whose label
\* joins revenue with a text that holds growth, margin, qoq, yoy, mix, asp,
\* price, chg or change
C19_QualifiersNeverSegments ==
  pc = "reconciled" =>
    \A r \in InputRows : Qualifies(r.name) =>
      \A i \in 1..Len(out.rows) :
        str_startswith(out.rows[i].name, "revenue-")
          => cell(out.rows[i], "2024F") # cell(r, "2024F")

\* the same for the companies without a list of segments
C19_GenericOnly == (company_name \notin {"SK Hynix", "AMD"}) => C19_QualifiersNeverSegments

\* the segments of the list of the company for which the result has no row
Absent ==
  {S \in SeqSet(segments_of(company_name)) : ~has_row(out, "revenue-" \o S)}

\* C20: for a company with a list of expected segments the report returned
\* by process_extracted_dfs is the set of the expected segments S without a
\* row revenue-S in the result, and None when every expected segment has its
\* row; for a company without a list it is None
C20_MissingSegmentReport ==
  pc = "reconciled" =>
    missing_segments =
      IF company_name # "" /\ has_segments(company_name) /\ Absent # {} THEN Some(Absent) ELSE None

\* the same for the segments of one word
C20_OneWordOnly == (company_name # "AMD") => C20_MissingSegmentReport

(***************************************************************************)
(* Further claims about normalize_period_label (checked under SpecNorm)    *)
(***************************************************************************)
\* C21: a label made of an optional FY, a year of four digits, an optional
\* FY and an optional marker A, E or F normalizes to the year followed by F
\* when the marker is E or F, and to the bare year when the marker is A or
\* absent.
C21_FiscalYearRule ==
  pc # "labelled" =>
    \A p \in {"", "FY"}, y \in Years4, fy \in {"", "FY"}, suf \in Markers :
      label = p \o y \o fy \o suf => norm = y \o ForecastSuffix(suf)

\* the same without the labels that begin with the year and go on with FY
C21_NotYearThenFY ==
  pc # "labelled" =>
    \A p \in {"", "FY"}, y \in Years4, fy \in {"", "FY"}, suf \in Markers :
      (label = p \o y \o fy \o suf /\ ~(p = "" /\ fy = "FY"))
        => norm = y \o ForecastSuffix(suf)

AllDigits(t) == \A i \in 1..Len(t) : str_contains(Digits, CharAt(t, i))

\* YYYY or YYYYF
CanonicalYear(t) ==
  \/ Len(t) = 4 /\ AllDigits(t)
  \/ Len(t) = 5 /\ AllDigits(SubSeq(t, 1, 4)) /\ CharAt(t, 5) = "F"

\* YYYY, YYYYF, qQYYYY or qQYYYYF with q in 1..4
Canonical(t) ==
  \/ CanonicalYear(t)
  \/ /\ Len(t) > 2 /\ CharAt(t, 1) \in QuarterDigits /\ CharAt(t, 2) = "Q"
     /\ CanonicalYear(SubSeq(t, 3, Len(t)))

\* C22: whenever one of the period rules decides the label, the result is
\* YYYY, YYYYF, qQYYYY or qQYYYYF with q in 1..4 and a year of four digits.
C22_CanonicalShape ==
  (pc # "labelled" /\ normalize_rule(label).rule # 0) => Canonical(norm)

\* the same for the rules other than the quarter rule and the month rule
C22_YearRulesOnly ==
  (pc # "labelled" /\ normalize_rule(label).rule \in {1, 3, 5, 6, 7}) => Canonical(norm)

(***************************************************************************)
(* Further claims about process_extracted_dfs (checked under SpecSegments) *)
(***************************************************************************)
\* the label is taken by the dictionary of the company for the segment seg
InDictionary(name, seg) ==
  /\ str_contains(str_lower(str_strip(name)), "revenue")
  /\ str_contains(str_lower(str_strip(name)), str_lower(seg))

Recognized == company_name # "" /\ has_segments(company_name)

\* the rows revenue-... of the result that carry the value v
SegmentRowsOf(v) ==
  {i \in 1..Len(out.rows) :
     str_startswith(out.rows[i].name, "revenue-") /\ cell(out.rows[i], "2024F") = v}

\* the first input row that the dictionary takes for seg
FirstInDictionary(seg) ==
  list_of_dfs[1].rows[MinOf({i \in 1..Len(list_of_dfs[1].rows) :
                               InDictionary(list_of_dfs[1].rows[i].name, seg)})]

\* an input row found by the dictionary and by the generic pattern gives one
\* row revenue-... of the result
OnePerSource ==
  \A r \in InputRows :
    (/\ \E seg \in SeqSet(segments_of(company_name)) : InDictionary(r.name, seg)
     /\ generic_label(r.name) # "")
      => Cardinality(SegmentRowsOf(cell(r, "2024F"))) = 1

\* of the rows the dictionary takes for a segment the first is the one kept
FirstSeenKept ==
  \A seg \in SeqSet(segments_of(company_name)) :
    (\E r \in InputRows : InDictionary(r.name, seg))
      => /\ has_row(out, "revenue-" \o seg)
         /\ cell(row_of(out, "revenue-" \o seg), "2024F") = cell(FirstInDictionary(seg), "2024F")

\* C23: for a recognized company, a source row detected both by the segment
\* dictionary and by the generic revenue pattern contributes exactly one row
\* revenue-<segment> to the output, and among several rows for the same
\* segment the first seen is the one kept.
C23_SegmentsDeduplicated ==
  (pc = "reconciled" /\ Recognized) => (OnePerSource /\ FirstSeenKept)

\* the second half alone
C23_FirstSeenOnly == (pc = "reconciled" /\ Recognized) => FirstSeenKept

\* the first half for the company whose segments are spelt as str.title spells them
C23_TitleCaseOnly == (pc = "reconciled" /\ company_name = "AMD") => OnePerSource

(***************************************************************************)
(* Specification SpecRename: match_and_rename_index applied to a row label *)
(***************************************************************************)
\* the keys of index_rename_map
RenameKeys == {index_rename_map[i][1] : i \in 1..Len(index_rename_map)}

\* no parenthetical, one in lower case, one with capitals
RenameParens == {"", " (gaap)", "(Adj)"}

\* a synonym as it is, in capitals, and with blanks around it, followed by a
\* parenthetical; a synonym of the prose that is no key; labels that are no
\* synonym
RenameLabels ==
  {w \o par : w \in UNION {{k, str_upper(k), " " \o k} : k \in RenameKeys \cup {"net sales"}},
              par \in RenameParens}
    \cup {k \o " " : k \in RenameKeys}
    \cup {"", "sales", "revenue 2", "revenue (gaap) total", "total  revenue", "(gaap)", "dram revenue"}

InitRename == /\ pc = "indexed" /\ NoViz /\ NoJob /\ NoSummary
              /\ label \in RenameLabels
              /\ norm = "" /\ renorm = ""
              /\ df = NoTable /\ out = NoTable
              /\ list_of_dfs = <<>> /\ errors = <<>> /\ missing_segments = None
              /\ company_name = ""

\* match_and_rename_index(label); "" stands for None
Rename == /\ pc = "indexed"
          /\ norm' = match_and_rename_index(label)
          /\ pc' = "renamed"
          /\ UNCHANGED <<label, renorm, df, out, list_of_dfs, company_name, errors, missing_segments, viz, job, summary>>

NextRename == Rename

SpecRename == InitRename /\ [][NextRename]_vars

\* the synonym table of the claim: index_rename_map and the synonym the
\* prose names
Synonyms == index_rename_map \o << <<"net sales", "Revenue">> >>

\* the label is the synonym Synonyms[i], in any case, followed by par
IsSynonym(i, par) ==
  /\ par = "" \/ (CharAt(par, Len(par)) = ")" /\ IndexIn("(", par) > 0
                    /\ str_strip(SubSeq(par, 1, IndexIn("(", par) - 1)) = "")
  /\ str_lower(str_strip(label)) = Synonyms[i][1] \o str_lower(par)

\* the ends of the trimmed label
LabelTails == {SubSeq(str_strip(label), k, Len(str_strip(label))) : k \in 1..(Len(str_strip(label)) + 1)}

\* C24: a label that, lower-cased and trimmed, is a synonym of the table,
\* optionally followed by a parenthetical, is renamed to the canonical name
\* followed by that parenthetical; for every other label
\* match_and_rename_index returns None.
C24_RenameCoversTable ==
  pc = "renamed" =>
    /\ \A i \in 1..Len(Synonyms), par \in LabelTails :
         IsSynonym(i, par) => norm = Synonyms[i][2] \o par
    /\ (\A i \in 1..Len(Synonyms), par \in LabelTails : ~IsSynonym(i, par)) => norm = ""

LettersOnly(k) == \A j \in 1..Len(k) : str_contains(LowerAlpha \o " ", CharAt(k, j))

\* the same for the keys of index_rename_map made of letters and blanks,
\* with the parenthetical in lower case
C24_LetterKeysOnly ==
  pc = "renamed" =>
    /\ \A i \in 1..Len(index_rename_map), par \in LabelTails :
         (IsSynonym(i, par) /\ LettersOnly(index_rename_map[i][1]))
           => norm = index_rename_map[i][2] \o str_lower(par)
    /\ (\A i \in 1..Len(index_rename_map), par \in LabelTails :
          ~(IsSynonym(i, par) /\ LettersOnly(index_rename_map[i][1]))) => norm = ""

(***************************************************************************)
(* Further claims about process_extracted_dfs (checked under Spec)         *)
(***************************************************************************)
\* the label holds an opening parenthesis and, after it, a closing one
HoldsParenthetical(name) ==
  \E i, j \in 1..Len(name) : i < j /\ CharAt(name, i) = "(" /\ CharAt(name, j) = ")"

\* C25: no row of the table that process_extracted_dfs computes has a label
\* that holds a parenthetical; a row that merge_duplicate_rows keeps apart
\* under a suffixed label is not in the output.
C25_NoParentheticalSurvives ==
  pc = "reconciled" =>
    \A i \in 1..Len(out.rows) : ~HoldsParenthetical(out.rows[i].name)

\* two rows of the group CapEx that conflict (10 and 20): the second is kept
\* apart as CapEx (1) by merge_duplicate_rows and is not in the output
C25_Witness ==
  /\ pc = "reconciled" /\ ~out.raised
  /\ company_name = ""
  /\ list_of_dfs = <<Table(DocCols, <<DocRow("capex", Num(10), NA)>>),
                     Table(DocCols, <<DocRow("purchase of property", Num(20), NA)>>)>>
  /\ Labels(out) = <<"CapEx">>
  /\ cell(out.rows[1], "2024F") = Num(10)

(***************************************************************************)
(* The text of a summary.  The three markers of the source are Korean      *)
(* words followed by a colon; a string of the model cannot hold them, and  *)
(* MAIN:, KEY: and ODD: stand for them                                     *)
(***************************************************************************)
MainMarker == "MAIN:"
DetailsMarker == "KEY:"
OutliersMarker == "ODD:"

\* line.startswith(('1.', '2.', '3.', '4.', '5.'))
is_numbered(line) == \E n \in {"1.", "2.", "3.", "4.", "5."} : str_startswith(line, n)

\* what a turn of the loop over the lines makes of the state st
parse_line(st, line) ==
  IF line = "" THEN st
  ELSE IF str_startswith(line, MainMarker)
  THEN [st EXCEPT !.section = "main",
                  !.main = Main(str_strip(str_replace(line, MainMarker, "")))]
  ELSE IF str_startswith(line, DetailsMarker) THEN [st EXCEPT !.section = "details"]
  ELSE IF str_startswith(line, OutliersMarker) THEN [st EXCEPT !.section = "outliers"]
  ELSE IF st.section = "details" /\ is_numbered(line)
  THEN [st EXCEPT !.details = Append(@, line)]
  ELSE IF st.section = "outliers" /\ str_startswith(line, "-")
  THEN [st EXCEPT !.outliers = Append(@, line)]
  ELSE st

(***************************************************************************)
(* Specification SpecSummary: parse_summary_text_with_delta, line by line  *)
(***************************************************************************)
MaxLines == 3

\* marker lines, one with the main marker twice; numbered lines in and out
\* of 1 to 5, one of them indented; a hyphen line; a blank line
LineKinds ==
  {"MAIN: up", "MAIN: say MAIN: twice", "KEY:", "ODD:", " 5. eps", "6. x", "- spike", ""}

RECURSIVE joined(_, _)
joined(ls, k) == IF k > Len(ls) THEN "" ELSE IF k = Len(ls) THEN ls[k] ELSE ls[k] \o "\n" \o joined(ls, k + 1)

SummaryTexts == {joined(ls, 1) : ls \in UNION {[1..n -> LineKinds] : n \in 1..MaxLines}}

InitSummary == /\ pc = "text" /\ NoViz /\ NoJob
               /\ summary_text \in SummaryTexts
               /\ lines = <<>> /\ line_idx = 0 /\ current_section = "None"
               /\ main_summary = NoMain /\ detail_summaries = <<>> /\ outlier_summaries = <<>>
               /\ label = "" /\ norm = "" /\ renorm = ""
               /\ df = NoTable /\ out = NoTable
               /\ list_of_dfs = <<>> /\ errors = <<>> /\ missing_segments = None
               /\ company_name = ""

others == <<label, norm, renorm, df, out, list_of_dfs, company_name, errors, missing_segments, viz, job>>

\* lines = summary_text.split('\n')
SplitLines ==
  /\ pc = "text"
  /\ lines' = str_split(summary_text, "\n", 1)
  /\ pc' = "lines"
  /\ UNCHANGED <<summary_text, line_idx, current_section, main_summary, detail_summaries,
                 outlier_summaries, others>>

\* one turn of the loop over the lines
ReadLine ==
  /\ pc = "lines"
  /\ line_idx < Len(lines)
  /\ \E st \in {parse_line([section |-> current_section, main |-> main_summary,
                            details |-> detail_summaries, outliers |-> outlier_summaries],
                           str_strip(lines[line_idx + 1]))} :
       /\ current_section' = st.section
       /\ main_summary' = st.main
       /\ detail_summaries' = st.details
       /\ outlier_summaries' = st.outliers
  /\ line_idx' = line_idx + 1
  /\ UNCHANGED <<pc, summary_text, lines, others>>

\* return main_summary, detail_summaries, outlier_summaries
ReturnSummary ==
  /\ pc = "lines"
  /\ line_idx = Len(lines)
  /\ pc' = "parsed"
  /\ UNCHANGED <<summary, others>>

NextSummary == SplitLines \/ ReadLine \/ ReturnSummary

SpecSummary == InitSummary /\ [][NextSummary]_vars

\* the line i, trimmed, and the marker it begins with
Trimmed(i) == str_strip(lines[i])
MarkerOf(i) ==
  IF str_startswith(Trimmed(i), MainMarker) THEN "main"
  ELSE IF str_startswith(Trimmed(i), DetailsMarker) THEN "details"
  ELSE IF str_startswith(Trimmed(i), OutliersMarker) THEN "outliers"
  ELSE "None"

\* the marker lines among the first k lines, and the marker of the last
MarkerLines(k, m) == {j \in 1..k : MarkerOf(j) = m}
LastMarker(i) ==
  IF \A j \in 1..(i - 1) : MarkerOf(j) = "None" THEN "None"
  ELSE MarkerOf(MaxOf({j \in 1..(i - 1) : MarkerOf(j) # "None"}))

\* what follows the marker the line begins with
AfterMarker(line) == str_strip(SubSeq(line, Len(MainMarker) + 1, Len(line)))

\* a detail is a line that begins with 1. to 5. after a details marker, an
\* outlier a line that begins with a hyphen after an outliers marker
CollectedOnlyInSection ==
  /\ \A n \in 1..Len(detail_summaries) : \E i \in 1..line_idx :
       /\ Trimmed(i) = detail_summaries[n]
       /\ is_numbered(Trimmed(i)) /\ LastMarker(i) = "details"
  /\ \A n \in 1..Len(outlier_summaries) : \E i \in 1..line_idx :
       /\ Trimmed(i) = outlier_summaries[n]
       /\ str_startswith(Trimmed(i), "-") /\ LastMarker(i) = "outliers"

\* a section without its marker is empty
MissingIsEmpty ==
  /\ MarkerLines(line_idx, "main") = {} => main_summary = NoMain
  /\ MarkerLines(line_idx, "details") = {} => detail_summaries = <<>>
  /\ MarkerLines(line_idx, "outliers") = {} => outlier_summaries = <<>>

\* the main summary is what follows the marker on the last main marker line
MainIsAfterLastMarker ==
  MarkerLines(line_idx, "main") # {}
    => main_summary = Main(AfterMarker(Trimmed(MaxOf(MarkerLines(line_idx, "main")))))

\* C27: whatever the lines and the order of the markers, a line is a detail
\* only if it begins with 1. to 5. and the last marker line before it is the
\* details marker, a line is an outlier only if it begins with a hyphen and
\* the last marker line before it is the outliers marker, the main summary
\* is the text after the last main marker, and a section without its marker
\* is empty.
C27_SectionMachine ==
  pc \in {"lines", "parsed"} =>
    (CollectedOnlyInSection /\ MissingIsEmpty /\ MainIsAfterLastMarker)

\* the same without the main summary
C27_SectionsOnly ==
  pc \in {"lines", "parsed"} => (CollectedOnlyInSection /\ MissingIsEmpty)

\* the main summary when the marker is on its line once
C27_MainMarkerOnce ==
  (/\ pc \in {"lines", "parsed"}
   /\ \A i \in 1..Len(lines) : ~str_contains(AfterMarker(Trimmed(i)), MainMarker))
    => MainIsAfterLastMarker

(***************************************************************************)
(* Specification SpecChain: the cleaning chain of a page table, applied by *)
(* the page loop and again by process_extracted_dfs                        *)
(***************************************************************************)
\* the tables of the specifications of the fold and of the columns
ChainTables == FoldTables \cup ColTables

InitChain == /\ pc = "read" /\ NoViz /\ NoJob /\ NoSummary
             /\ df \in ChainTables
             /\ out = NoTable
             /\ label = "" /\ norm = "" /\ renorm = ""
             /\ list_of_dfs = <<>> /\ errors = <<>> /\ missing_segments = None
             /\ company_name = ""

\* the chain in the try block of the page loop; a table on which it raises
\* is not kept
CleanPage ==
  /\ pc = "read"
  /\ out' = clean_table(df)
  /\ pc' = IF clean_table(df).raised THEN "failed" ELSE "kept"
  /\ UNCHANGED <<label, norm, renorm, df, list_of_dfs, company_name, errors, missing_segments, viz, job, summary>>

\* the chain at the head of process_extracted_dfs, on the table kept
CleanAgain ==
  /\ pc = "kept"
  /\ list_of_dfs' = <<clean_table(out)>>
  /\ pc' = "cleaned"
  /\ UNCHANGED <<label, norm, renorm, df, out, company_name, errors, missing_segments, viz, job, summary>>

NextChain == CleanPage \/ CleanAgain

SpecChain == InitChain /\ [][NextChain]_vars

\* C28: the second application of the chain normalize_df_columns,
\* handle_actual_columns, fold_month_suffix_rows, drop_unwanted_revenue_rows,
\* remove_unwanted_rows leaves the rows, the columns and every value of a
\* table as the first application has left them.
C28_ChainIdempotent ==
  pc = "cleaned" => list_of_dfs[1] = out

\* the label ends with two suffixes of the fold
TwiceSuffixed(name) == name = "DRAM_Dec_Mar"

\* the same for the tables of the fold without a label of two suffixes
C28_OneSuffixOnly ==
  (/\ pc = "cleaned" /\ df.cols \in {FoldCols, <<>>}
   /\ \A i \in 1..Len(df.rows) : ~TwiceSuffixed(df.rows[i].name))
    => list_of_dfs[1] = out

(***************************************************************************)
(* Specification SpecScale: merge_duplicate_rows applied to two rows of    *)
(* one base name, one of them at a thousand times the scale of the other   *)
(***************************************************************************)
\* 10 against 10000 or 10400, and -10 against -10000, are in ratio about
\* 1000; the second column makes the total of a row large or small
ScaleCells ==
  {<<Num(10), NA>>, <<Num(10), Num(3)>>, <<Num(10), Num(20000)>>,
   <<Num(10000), NA>>, <<Num(10000), Num(3000)>>, <<Num(10400), Num(20)>>,
   <<NA, Num(20)>>, <<Num(-10), Num(-3)>>, <<Num(-10000), NA>>}

ScaleTables ==
  {Table(MergeCols, <<MergeRow("FCF", a[1], a[2]), MergeRow("FCF (1)", b[1], b[2])>>) :
     a \in ScaleCells, b \in ScaleCells}

InitScale == /\ pc = "table" /\ NoViz /\ NoJob /\ NoSummary
             /\ df \in ScaleTables
             /\ out = NoTable
             /\ label = "" /\ norm = "" /\ renorm = ""
             /\ list_of_dfs = <<>> /\ errors = <<>> /\ missing_segments = None
             /\ company_name = ""

SpecScale == InitScale /\ [][NextMerge]_vars

\* in every column where the two rows hold values in ratio about 1000, the
\* value of v is the smaller one
SmallerIn(v, w) ==
  \A c \in DOMAIN v :
    (~isna(v[c]) /\ ~isna(w[c]) /\ ~rel_close(v[c], w[c]))
      => Abs(v[c].n * Pow10(w[c].p)) < Abs(w[c].n * Pow10(v[c].p))

\* C29: when merge_duplicate_rows merges two rows as a mismatch of unit
\* scale, the row that is multiplied by large_diff_target is the one whose
\* values are the about 1000 times smaller ones in the columns both rows
\* hold: the result is the row of the larger values, its missing cells
\* filled with 1000 times the cells of the other row.
C29_ScaleOfLargerRow ==
  pc = "merged" =>
    \A i, j \in 1..Len(df.rows) :
      (/\ TwoRowGroup(i, j)
       /\ Numeric(df.rows[i].v) /\ Numeric(df.rows[j].v)
       /\ ScalePair(df.rows[i].v, df.rows[j].v))
        => /\ SmallerIn(df.rows[i].v, df.rows[j].v)
                => MergedAs(i, ScaleUpOf(df.rows[j].v, df.rows[i].v))
           /\ SmallerIn(df.rows[j].v, df.rows[i].v)
                => MergedAs(i, ScaleUpOf(df.rows[i].v, df.rows[j].v))

\* the same for the pairs where the row of the smaller values has the
\* smaller total as well
C29_TotalsAgreeOnly ==
  pc = "merged" =>
    \A i, j \in 1..Len(df.rows) :
      (/\ TwoRowGroup(i, j)
       /\ Numeric(df.rows[i].v) /\ Numeric(df.rows[j].v)
       /\ ScalePair(df.rows[i].v, df.rows[j].v))
        => /\ (SmallerIn(df.rows[i].v, df.rows[j].v)
                 /\ num_lt(Total(df.rows[i].v), Total(df.rows[j].v)))
                => MergedAs(i, ScaleUpOf(df.rows[j].v, df.rows[i].v))
           /\ (SmallerIn(df.rows[j].v, df.rows[i].v)
                 /\ num_lt(Total(df.rows[j].v), Total(df.rows[i].v)))
                => MergedAs(i, ScaleUpOf(df.rows[i].v, df.rows[j].v))

(***************************************************************************)
(* A further claim about tidy_long (checked under SpecLong)                *)
(***************************************************************************)
\* the records of the long form that hold a value for row i of the wide
\* table at period p
RecordsAt(i, p) ==
  {k \in 1..Len(long) :
     /\ long[k].value # NA
     /\ long[k].company = df.rows[i].v["Company"]
     /\ long[k].segment = df.rows[i].v["Segment"]
     /\ long[k].period = p}

\* C30: the columns of the actual and of the forecast of one quarter (1Q2025
\* and 1Q2025F) give records of distinct periods: no two records of a
\* (company, segment) pair share a period, so that the sum per company,
\* segment and period never adds the values of two columns of the table.
C30_ActualAndForecastApart ==
  pc = "long" =>
    \A i \in 1..Len(df.rows) :
      Keyed(i) => \A k \in 1..Len(long) : Cardinality(RecordsAt(i, long[k].period)) <= 1

\* the same for the tables without the two columns of one quarter
C30_OtherColumnsOnly ==
  (pc = "long" /\ ~({"1Q2025", "1Q2025F"} \subseteq SeqSet(df.cols)))
    => C30_ActualAndForecastApart

=============================================================================
